---- MODULE Spec2Model ----
(***************************************************************************)
(* Reconciliation and classification engine: the voucher matcher           *)
(* (src/src/matching_engine.py) and the journal entry builder              *)
(* (src/src/journal_generator.py).                                         *)
(*                                                                         *)
(* Text is a sequence of one-character strings, so that lower(), split()   *)
(* and the substring test `a in b` are computed.  Decimal amounts are      *)
(* integers (whole currency units).  An optional value (None or absent)    *)
(* is a sequence of length 0 or 1.  The statement and the voucher held by  *)
(* a match result are references into the statement list and the voucher  *)
(* list: an index, 0 for None.                                            *)
(***************************************************************************)
EXTENDS Integers, Sequences, FiniteSets, TLC

VARIABLES
    statement_transactions, \* the statements handed to the matcher
    vouchers,               \* the voucher list; each dict's '_matched' flag is mutable
    date_tolerance_days,    \* the matcher's tolerance argument
    pc,                     \* position of the running operation
    idx,                    \* position of the running loop in its input list
    matches,                \* the list match_transactions_to_vouchers builds
    found,                  \* what a direct find_matching_voucher call returned
    text_in,                \* apply_rules_to_transaction: description argument
    rules_config,           \* rules.yml: ordered list of rules
    rule_out,               \* what a direct apply_rules_to_transaction call returned
    matched_results,        \* input of generate_journal_entries
    default_bank_account_name, \* argument of generate_journal_entries
    accounts_config,        \* accounts.yml: list of accounts
    journal_entries,        \* the list generate_journal_entries builds
    run_b,                  \* a second match_transactions_to_vouchers call (run B)
    trial_balance           \* what generate_trial_balance builds, writes and returns

vars == <<statement_transactions, vouchers, date_tolerance_days, pc, idx, matches,
          found, text_in, rules_config, rule_out, matched_results,
          default_bank_account_name, accounts_config, journal_entries, run_b,
          trial_balance>>

----------------------------------------------------------------------------
(* Bounds of the model *)

MaxStatements == 3
MaxVouchers == 2
MaxRules == 2
MaxResults == 2

SeqsUpTo(S, n) == UNION {[1..k -> S] : k \in 0..n}

None == <<>>
Some(x) == <<x>>

----------------------------------------------------------------------------
(* str: lower(), split(), `in` *)

UpperChars == <<"A","B","C","D","E","F","G","H","I","J","K","L","M",
                "N","O","P","Q","R","S","T","U","V","W","X","Y","Z">>
LowerChars == <<"a","b","c","d","e","f","g","h","i","j","k","l","m",
                "n","o","p","q","r","s","t","u","v","w","x","y","z">>

\* The lower-case letter of each upper-case letter
UpperToLower ==
    [c \in {UpperChars[k] : k \in 1..Len(UpperChars)} |->
        LowerChars[CHOOSE k \in 1..Len(UpperChars) : UpperChars[k] = c]]

LowerChar(c) == IF c \in DOMAIN UpperToLower THEN UpperToLower[c] ELSE c

Lower(s) == [k \in 1..Len(s) |-> LowerChar(s[k])]

\* a in b
IsSubstring(a, b) ==
    \E k \in 0..(Len(b) - Len(a)) : SubSeq(b, k + 1, k + Len(a)) = a

IsSpace(c) == c \in {" ", "\t", "\n"}

RECURSIVE SplitFrom(_, _, _, _)
SplitFrom(s, k, cur, acc) ==
    IF k > Len(s)
    THEN IF cur = <<>> THEN acc ELSE Append(acc, cur)
    ELSE IF IsSpace(s[k])
         THEN SplitFrom(s, k + 1, <<>>, IF cur = <<>> THEN acc ELSE Append(acc, cur))
         ELSE SplitFrom(s, k + 1, Append(cur, s[k]), acc)

\* s.split()
Split(s) == SplitFrom(s, 1, <<>>, <<>>)

----------------------------------------------------------------------------
(* datetime.date: fromisoformat(), isoformat(), subtraction *)

DigitChars == <<"0","1","2","3","4","5","6","7","8","9">>
IsDigit(c) == \E k \in 1..Len(DigitChars) : DigitChars[k] = c
DigitVal(c) == (CHOOSE k \in 1..Len(DigitChars) : DigitChars[k] = c) - 1

IsLeap(y) == (y % 4 = 0 /\ y % 100 # 0) \/ y % 400 = 0

DaysInMonth(y, m) ==
    IF m = 2 THEN (IF IsLeap(y) THEN 29 ELSE 28)
    ELSE IF m \in {4, 6, 9, 11} THEN 30 ELSE 31

RECURSIVE DaysBeforeMonth(_, _)
DaysBeforeMonth(y, m) ==
    IF m = 1 THEN 0 ELSE DaysBeforeMonth(y, m - 1) + DaysInMonth(y, m - 1)

\* date.toordinal()
Ordinal(dt) ==
    LET p == dt.y - 1
    IN  p * 365 + (p \div 4) - (p \div 100) + (p \div 400)
        + DaysBeforeMonth(dt.y, dt.m) + dt.d

\* (a - b).days
DaysBetween(a, b) == Ordinal(a) - Ordinal(b)

Abs(n) == IF n < 0 THEN -n ELSE n

\* The date of year y, month m, day d; None where there is no such date
DateOf(y, m, d) ==
    IF y >= 1 /\ m \in 1..12 /\ d >= 1 /\ d <= DaysInMonth(y, m)
    THEN Some([y |-> y, m |-> m, d |-> d])
    ELSE None

\* date.fromisoformat(s): Some(date), or None where it raises ValueError.
\* The interpreter (Python 3.11 and later) accepts the extended form
\* YYYY-MM-DD and the basic form YYYYMMDD; its week forms (YYYY-Www-D) are not
\* among the strings of this model
FromIsoFormat(s) ==
    IF /\ Len(s) = 10
       /\ s[5] = "-" /\ s[8] = "-"
       /\ \A k \in {1, 2, 3, 4, 6, 7, 9, 10} : IsDigit(s[k])
    THEN DateOf(DigitVal(s[1]) * 1000 + DigitVal(s[2]) * 100
                    + DigitVal(s[3]) * 10 + DigitVal(s[4]),
                DigitVal(s[6]) * 10 + DigitVal(s[7]),
                DigitVal(s[9]) * 10 + DigitVal(s[10]))
    ELSE IF Len(s) = 8 /\ \A k \in 1..8 : IsDigit(s[k])
    THEN DateOf(DigitVal(s[1]) * 1000 + DigitVal(s[2]) * 100
                    + DigitVal(s[3]) * 10 + DigitVal(s[4]),
                DigitVal(s[5]) * 10 + DigitVal(s[6]),
                DigitVal(s[7]) * 10 + DigitVal(s[8]))
    ELSE None

Digits2(n) == <<DigitChars[((n \div 10) % 10) + 1], DigitChars[(n % 10) + 1]>>

\* date.isoformat()
IsoFormat(dt) ==
    Digits2(dt.y \div 100) \o Digits2(dt.y % 100) \o <<"-">>
    \o Digits2(dt.m) \o <<"-">> \o Digits2(dt.d)

\* A 'date' field: a date object, a string, or missing
DateObj(y, m, d) == [kind |-> "date", val |-> [y |-> y, m |-> m, d |-> d], str |-> <<>>]
DateStr(s) == [kind |-> "str", val |-> [y |-> 1, m |-> 1, d |-> 1], str |-> s]
NoDate == [kind |-> "none", val |-> [y |-> 1, m |-> 1, d |-> 1], str |-> <<>>]

----------------------------------------------------------------------------
(* matching_engine.find_matching_voucher *)

DateScorePerDay == 10
FullVendorBonus == 50
VendorPartBonus == 10
MinPartLen == 2

\* lines 27-41: the statement's date as a date object; None where the
\* function gives up (invalid string, missing or other type)
StatementDate(tx) ==
    IF tx.date.kind = "str" THEN FromIsoFormat(tx.date.str)
    ELSE IF tx.date.kind = "date" THEN Some(tx.date.val)
    ELSE None

\* line 49: only statement debits are matched
NotADebit(st_amount) == st_amount >= 0

\* Mutant of SkipMatched: the flag is not looked at
SkipMatchedNever(voucher) == FALSE

\* line 55: voucher.get('_matched')
SkipMatched(voucher) == voucher.matched

\* line 62: not isinstance(v_date, date) or v_amount is None
InvalidVoucher(voucher) ==
    voucher.transaction_date.kind # "date" \/ voucher.total_amount = None

\* Mutant of AmountMatches: the absolute value of the voucher amount is taken too
AmountMatchesAbs(st_amount, v_amount) == Abs(st_amount) = Abs(v_amount)

\* line 68 (negated): abs(st_amount) == v_amount
AmountMatches(st_amount, v_amount) == Abs(st_amount) = v_amount

\* line 72
DateDiff(st_date, v_date) == Abs(DaysBetween(st_date, v_date))

\* line 73 (negated)
WithinTolerance(date_diff, tolerance) == ~(date_diff > tolerance)

\* lines 89-90: the vendor-name parts longer than two characters found in the
\* description, counted with their repetitions
CommonParts(v_vendor, st_description) ==
    LET parts == Split(v_vendor)
        vendor_parts == SelectSeq(parts, LAMBDA part : Len(part) > MinPartLen)
    IN  Cardinality({k \in 1..Len(vendor_parts) :
                        IsSubstring(vendor_parts[k], st_description)})

\* lines 84-91
VendorScore(v_vendor, st_description) ==
    IF v_vendor # <<>> /\ IsSubstring(v_vendor, st_description)
    THEN FullVendorBonus
    ELSE IF v_vendor # <<>>
         THEN CommonParts(v_vendor, st_description) * VendorPartBonus
         ELSE 0

\* lines 78-91
Score(tolerance, date_diff, v_vendor, st_description) ==
    (tolerance - date_diff) * DateScorePerDay + VendorScore(v_vendor, st_description)

\* Mutant of PositiveIndication: a score of zero is kept
PositiveIndicationOrNone(score) == score >= 0

\* line 94
PositiveIndication(score) == score > 0

\* lines 54-74: the voucher passes the filters
Survives(st_amount, st_date, voucher, tolerance) ==
    /\ ~SkipMatched(voucher)
    /\ ~InvalidVoucher(voucher)
    /\ AmountMatches(st_amount, voucher.total_amount[1])
    /\ WithinTolerance(DateDiff(st_date, voucher.transaction_date.val), tolerance)

\* lines 53-95: potential_matches over the first n vouchers, in list order
RECURSIVE PotentialMatches(_, _, _, _, _)
PotentialMatches(tx, st_date, available_vouchers, tolerance, n) ==
    IF n = 0 THEN <<>>
    ELSE LET prev == PotentialMatches(tx, st_date, available_vouchers, tolerance, n - 1)
             voucher == available_vouchers[n]
         IN  IF Survives(tx.amount, st_date, voucher, tolerance)
             THEN LET date_diff == DateDiff(st_date, voucher.transaction_date.val)
                      score == Score(tolerance, date_diff,
                                     Lower(voucher.vendor_name), Lower(tx.description))
                  IN  IF PositiveIndication(score)
                      THEN Append(prev, [voucher |-> n, score |-> score,
                                         date_diff |-> date_diff])
                      ELSE prev
             ELSE prev

Last(s) == s[Len(s)]

\* Mutant of KeyBefore: the sort key is the score alone
KeyBeforeScoreOnly(a, b) == -a.score < -b.score

\* line 101: key (-score, date_diff) of a strictly before that of b
KeyBefore(a, b) ==
    \/ -a.score < -b.score
    \/ (-a.score = -b.score /\ a.date_diff < b.date_diff)

\* list.sort is stable: x goes after every element whose key is not after its own
RECURSIVE InsertSorted(_, _)
InsertSorted(sorted, x) ==
    IF sorted = <<>> THEN <<x>>
    ELSE IF KeyBefore(x, Last(sorted))
         THEN Append(InsertSorted(SubSeq(sorted, 1, Len(sorted) - 1), x), Last(sorted))
         ELSE Append(sorted, x)

RECURSIVE SortMatches(_)
SortMatches(ms) ==
    IF ms = <<>> THEN <<>>
    ELSE InsertSorted(SortMatches(SubSeq(ms, 1, Len(ms) - 1)), Last(ms))


\* Mutant of find_matching_voucher: the last of the sorted candidates is returned
find_matching_voucher_last(tx, available_vouchers, tolerance) ==
    IF available_vouchers = <<>> THEN 0
    ELSE IF StatementDate(tx) = None THEN 0
    ELSE IF NotADebit(tx.amount) THEN 0
    ELSE LET potential_matches ==
                 PotentialMatches(tx, StatementDate(tx)[1], available_vouchers,
                                  tolerance, Len(available_vouchers))
         IN  IF potential_matches = <<>> THEN 0
             ELSE Last(SortMatches(potential_matches)).voucher

\* lines 4-105: the index of the best matching voucher, 0 for None
find_matching_voucher(tx, available_vouchers, tolerance) ==
    IF available_vouchers = <<>> THEN 0
    ELSE IF StatementDate(tx) = None THEN 0
    ELSE IF NotADebit(tx.amount) THEN 0
    ELSE LET potential_matches ==
                 PotentialMatches(tx, StatementDate(tx)[1], available_vouchers,
                                  tolerance, Len(available_vouchers))
         IN  IF potential_matches = <<>> THEN 0
             ELSE SortMatches(potential_matches)[1].voucher

----------------------------------------------------------------------------
(* matching_engine.match_transactions_to_vouchers *)

\* Mutant of ResetFlags: the flags are left as the caller hands them over
ResetFlagsKeeps(vs) == vs

\* Mutant of ResetFlags: only the flag of the first voucher is cleared
ResetFlagsFirstOnly(vs) ==
    [k \in 1..Len(vs) |-> IF k = 1 THEN [vs[k] EXCEPT !.matched = FALSE] ELSE vs[k]]

\* lines 123-124
ResetFlags(vs) == [k \in 1..Len(vs) |-> [vs[k] EXCEPT !.matched = FALSE]]

\* Mutant of IgnoredCreditOrZero: a zero amount is not set aside
IgnoredCreditOnly(amount) == amount > 0

\* line 137
IgnoredCreditOrZero(amount) == amount >= 0

\* Mutant of MarkMatched: the amount of the voucher is used up with it
MarkMatchedSpendsAmount(vs, k) ==
    [vs EXCEPT ![k].matched = TRUE, ![k].total_amount = Some(0)]

\* Mutant of MarkMatched: the voucher is not marked as used
MarkMatchedForgets(vs, k) == vs

\* line 144
MarkMatched(vs, k) == [vs EXCEPT ![k].matched = TRUE]

\* Mutant of MatchResult: the test of the returned voucher is inverted
MatchResultInverted(st_transaction, matched_voucher) ==
    IF statement_transactions[st_transaction].amount >= 0
    THEN [statement |-> st_transaction, voucher |-> 0,
          status |-> "ignored_credit_or_zero"]
    ELSE IF matched_voucher = 0
         THEN [statement |-> st_transaction, voucher |-> matched_voucher,
               status |-> "matched"]
         ELSE [statement |-> st_transaction, voucher |-> 0,
               status |-> "unmatched"]

\* Mutant of MatchResult: a debit without voucher is set aside like a credit
MatchResultSetsAsideUnmatched(st_transaction, matched_voucher) ==
    IF IgnoredCreditOrZero(statement_transactions[st_transaction].amount)
    THEN [statement |-> st_transaction, voucher |-> 0,
          status |-> "ignored_credit_or_zero"]
    ELSE IF matched_voucher # 0
         THEN [statement |-> st_transaction, voucher |-> matched_voucher,
               status |-> "matched"]
         ELSE [statement |-> st_transaction, voucher |-> 0,
               status |-> "ignored_credit_or_zero"]

\* lines 138, 145, 147: the result appended for the statement at st_transaction
MatchResult(st_transaction, matched_voucher) ==
    IF IgnoredCreditOrZero(statement_transactions[st_transaction].amount)
    THEN [statement |-> st_transaction, voucher |-> 0,
          status |-> "ignored_credit_or_zero"]
    ELSE IF matched_voucher # 0
         THEN [statement |-> st_transaction, voucher |-> matched_voucher,
               status |-> "matched"]
         ELSE [statement |-> st_transaction, voucher |-> 0,
               status |-> "unmatched"]

----------------------------------------------------------------------------
(* journal_generator.apply_rules_to_transaction *)

\* Mutant of KeywordIn: the keyword is compared as it is written in rules.yml
KeywordInAsWritten(keyword, desc_lower) == IsSubstring(keyword, desc_lower)

\* line 30: keyword.lower() in desc_lower
KeywordIn(keyword, desc_lower) == IsSubstring(Lower(keyword), desc_lower)

\* Mutant of RuleMatches: a rule without keywords matches every description
RuleMatchesWithoutKeywords(rule, desc_lower) ==
    \/ rule.keywords = <<>>
    \/ \E k \in 1..Len(rule.keywords) : KeywordIn(rule.keywords[k], desc_lower)

\* lines 21-30: the rule has keywords and one of them is in the description
RuleMatches(rule, desc_lower) ==
    /\ rule.keywords # <<>>
    /\ \E k \in 1..Len(rule.keywords) : KeywordIn(rule.keywords[k], desc_lower)

\* lines 20-33: the loop over the rules from position n on; the index of the
\* first rule that matches, 0 for None
RECURSIVE FirstRuleFrom(_, _, _)
FirstRuleFrom(rules, desc_lower, n) ==
    IF n > Len(rules) THEN 0
    ELSE IF RuleMatches(rules[n], desc_lower) THEN n
    ELSE FirstRuleFrom(rules, desc_lower, n + 1)

\* lines 4-33: the index of the rule returned, 0 for None.  The description is
\* a text, empty for '' and for None.  The transaction_amount argument is never
\* read by the code (lines 23-24 are commented out), so it is not a parameter
apply_rules_to_transaction(transaction_description, rules) ==
    IF rules = <<>> \/ transaction_description = <<>> THEN 0
    ELSE FirstRuleFrom(rules, Lower(transaction_description), 1)

----------------------------------------------------------------------------
(* journal_generator.generate_journal_entries *)

\* line 35: the default of default_suspense_account_name
default_suspense_account_name == "Suspense"

\* Mutant of BankAccountName: where the name is not configured, the first
\* configured account is taken
BankAccountNameFirstConfigured(accounts, default_name) ==
    IF \E k \in 1..Len(accounts) : accounts[k].name = default_name
    THEN default_name
    ELSE IF accounts # <<>> THEN accounts[1].name ELSE default_name

\* lines 52-59
BankAccountName(accounts, default_name) ==
    IF \E k \in 1..Len(accounts) : accounts[k].name = default_name
    THEN accounts[CHOOSE k \in 1..Len(accounts) :
                     /\ accounts[k].name = default_name
                     /\ \A j \in 1..(k - 1) : accounts[j].name # default_name].name
    ELSE default_name

\* Mutant of EntryDate: a string is taken for a date without being parsed
EntryDateUnparsed(statement_tx) ==
    IF statement_tx.date.kind = "date" THEN Some(statement_tx.date.val)
    ELSE IF statement_tx.date.kind = "str" THEN Some(statement_tx.date.val)
    ELSE None

\* lines 70-82: the statement's date as a date object; None where the item is skipped
EntryDate(statement_tx) ==
    IF statement_tx.date.kind = "date" THEN Some(statement_tx.date.val)
    ELSE IF statement_tx.date.kind = "str" THEN FromIsoFormat(statement_tx.date.str)
    ELSE None

\* lines 87-90; voucher is None or Some(voucher dict)
EntryDescription(statement_tx, voucher, status) ==
    IF voucher # None /\ voucher[1].vendor_name # <<>> /\ status = "matched"
    THEN voucher[1].vendor_name \o <<" ", "-", " ">> \o statement_tx.description
    ELSE statement_tx.description

Posting(account, debit, credit) ==
    [account |-> account, debit |-> debit, credit |-> credit]

\* line 104: voucher.get("raw_text") or voucher.get("vendor_name")
RuleSourceDescription(voucher) ==
    IF voucher.raw_text # <<>> THEN voucher.raw_text ELSE voucher.vendor_name

\* lines 108, 128: rule and rule.get("account"); rule is an index into rules, 0 for None
RuleWithAccount(rules, rule) == rule # 0 /\ rules[rule].account # ""

\* lines 93-100: the entry before its status and postings are set
EntryBase(statement_tx, voucher, status, tx_date_obj) ==
    [date |-> IsoFormat(tx_date_obj),
     description |-> EntryDescription(statement_tx, voucher, status),
     postings |-> <<>>,
     status |-> "needs_review",
     source_statement_id |-> statement_tx.id,
     source_voucher_id |-> IF voucher # None THEN voucher[1].id ELSE None]

\* Mutant of MatchedEntry: the postings carry the amount of the voucher
MatchedEntryVoucherAmount(entry, statement_tx, voucher, rules, bank_account_name) ==
    LET rule == apply_rules_to_transaction(RuleSourceDescription(voucher), rules)
        with_rule == RuleWithAccount(rules, rule)
        expense_account_name ==
            IF with_rule THEN rules[rule].account ELSE default_suspense_account_name
        abs_tx_amount == voucher.total_amount[1]
    IN  [entry EXCEPT
            !.status = IF with_rule THEN "auto_generated_rule"
                       ELSE "auto_generated_matched_no_rule",
            !.postings = <<Posting(expense_account_name, abs_tx_amount, 0),
                           Posting(bank_account_name, 0, abs_tx_amount)>>]

\* lines 102-116
MatchedEntry(entry, statement_tx, voucher, rules, bank_account_name) ==
    LET rule == apply_rules_to_transaction(RuleSourceDescription(voucher), rules)
        with_rule == RuleWithAccount(rules, rule)
        expense_account_name ==
            IF with_rule THEN rules[rule].account ELSE default_suspense_account_name
        abs_tx_amount == Abs(statement_tx.amount)
    IN  [entry EXCEPT
            !.status = IF with_rule THEN "auto_generated_rule"
                       ELSE "auto_generated_matched_no_rule",
            !.postings = <<Posting(expense_account_name, abs_tx_amount, 0),
                           Posting(bank_account_name, 0, abs_tx_amount)>>]

\* lines 118-122
UnmatchedDebitEntry(entry, statement_tx, bank_account_name) ==
    LET abs_tx_amount == Abs(statement_tx.amount)
    IN  [entry EXCEPT
            !.status = "unmatched_debit",
            !.postings = <<Posting(default_suspense_account_name, abs_tx_amount, 0),
                           Posting(bank_account_name, 0, abs_tx_amount)>>]

\* Mutant of CreditEntry: the two postings are appended in the other order
CreditEntrySwapped(entry, statement_tx, rules, bank_account_name) ==
    LET rule == apply_rules_to_transaction(statement_tx.description, rules)
        with_rule == RuleWithAccount(rules, rule)
        income_account_name ==
            IF with_rule THEN rules[rule].account ELSE default_suspense_account_name
    IN  [entry EXCEPT
            !.status = IF with_rule THEN "auto_generated_rule_income"
                       ELSE "unmatched_credit",
            !.postings = <<Posting(income_account_name, 0, statement_tx.amount),
                           Posting(bank_account_name, statement_tx.amount, 0)>>]

\* lines 124-135
CreditEntry(entry, statement_tx, rules, bank_account_name) ==
    LET rule == apply_rules_to_transaction(statement_tx.description, rules)
        with_rule == RuleWithAccount(rules, rule)
        income_account_name ==
            IF with_rule THEN rules[rule].account ELSE default_suspense_account_name
    IN  [entry EXCEPT
            !.status = IF with_rule THEN "auto_generated_rule_income"
                       ELSE "unmatched_credit",
            !.postings = <<Posting(bank_account_name, statement_tx.amount, 0),
                           Posting(income_account_name, 0, statement_tx.amount)>>]

\* Mutant of GenerateEntry: an 'unmatched' result is handled whatever the sign
\* of its amount
GenerateEntryAnyAmount(statement_tx, voucher, status, rules, bank_account_name) ==
    IF statement_tx = None THEN None
    ELSE IF EntryDate(statement_tx[1]) = None THEN None
    ELSE LET tx == statement_tx[1]
             entry == EntryBase(tx, voucher, status, EntryDate(tx)[1])
             filled ==
                 IF status = "matched" /\ voucher # None
                 THEN Some(MatchedEntry(entry, tx, voucher[1], rules, bank_account_name))
                 ELSE IF status = "unmatched"
                 THEN Some(UnmatchedDebitEntry(entry, tx, bank_account_name))
                 ELSE IF status = "ignored_credit_or_zero" /\ tx.amount > 0
                 THEN Some(CreditEntry(entry, tx, rules, bank_account_name))
                 ELSE None
         IN  IF filled # None /\ filled[1].postings # <<>> THEN filled ELSE None

\* lines 62-143: one iteration of the loop; statement_tx and voucher are None
\* or Some(dict).  The entry appended, None where the item gives no entry
GenerateEntry(statement_tx, voucher, status, rules, bank_account_name) ==
    IF statement_tx = None THEN None
    ELSE IF EntryDate(statement_tx[1]) = None THEN None
    ELSE LET tx == statement_tx[1]
             entry == EntryBase(tx, voucher, status, EntryDate(tx)[1])
             filled ==
                 IF status = "matched" /\ voucher # None
                 THEN Some(MatchedEntry(entry, tx, voucher[1], rules, bank_account_name))
                 ELSE IF status = "unmatched" /\ tx.amount < 0
                 THEN Some(UnmatchedDebitEntry(entry, tx, bank_account_name))
                 ELSE IF status = "ignored_credit_or_zero" /\ tx.amount > 0
                 THEN Some(CreditEntry(entry, tx, rules, bank_account_name))
                 ELSE None
         IN  IF filled # None /\ filled[1].postings # <<>> THEN filled ELSE None

----------------------------------------------------------------------------
(* trial_balance_generator.generate_trial_balance *)
(* account_totals is a function from account names to totals; the empty    *)
(* dict is the function with no argument, <<>>.  Posting amounts are        *)
(* Decimal values (integers here); the conversion of other values, lines    *)
(* 56-66, is not exercised.  The CSV file is what its rows say: the totals  *)
(* per account and the GRAND TOTAL row; the order of the rows is left out.  *)

\* lines 35, 76-77: the totals of an account, zero where it has none yet
TotalsOf(account_totals, account) ==
    IF account \in DOMAIN account_totals THEN account_totals[account]
    ELSE [debit |-> 0, credit |-> 0]

\* Mutant of KeepsPosting: a posting without account name is kept
KeepsPostingAlways(posting_raw) == TRUE

\* lines 50-52: a posting without account name is skipped
KeepsPosting(posting_raw) == posting_raw.account # ""

\* lines 45-70: valid_postings_for_entry
ValidPostings(postings) == SelectSeq(postings, KeepsPosting)

\* lines 76-77: one posting added to the totals of its account
AddPosting(account_totals, posting) ==
    [a \in DOMAIN account_totals \cup {posting.account} |->
        IF a = posting.account
        THEN [debit |-> TotalsOf(account_totals, a).debit + posting.debit,
              credit |-> TotalsOf(account_totals, a).credit + posting.credit]
        ELSE account_totals[a]]

\* lines 75-77: the loop over the valid postings of an entry, from position n on
RECURSIVE AddPostings(_, _, _)
AddPostings(account_totals, postings, n) ==
    IF n > Len(postings) THEN account_totals
    ELSE AddPostings(AddPosting(account_totals, postings[n]), postings, n + 1)

\* lines 37-77: one entry; an entry without postings is skipped
AddEntry(account_totals, entry) ==
    IF entry.postings = <<>> THEN account_totals
    ELSE AddPostings(account_totals, ValidPostings(entry.postings), 1)

\* lines 100-105: grand_total_debit and grand_total_credit over the accounts
RECURSIVE GrandTotal(_, _)
GrandTotal(account_totals, accounts) ==
    IF accounts = {} THEN [debit |-> 0, credit |-> 0]
    ELSE LET account_name == CHOOSE a \in accounts : TRUE
             rest == GrandTotal(account_totals, accounts \ {account_name})
         IN  [debit |-> rest.debit + account_totals[account_name].debit,
              credit |-> rest.credit + account_totals[account_name].credit]

\* lines 97-105: the file written: a row per account and the GRAND TOTAL row
CsvFile(account_totals) ==
    [rows |-> account_totals,
     grand_total |-> GrandTotal(account_totals, DOMAIN account_totals)]

----------------------------------------------------------------------------
(* Inputs *)

Txt_CAFE_BAR_1 == <<"C","A","F","E"," ","B","A","R"," ","1">>
Txt_cafe_x == <<"c","a","f","e"," ","x">>
Txt_ZZ == <<"Z","Z">>
Txt_Cafe_Bar == <<"C","a","f","e"," ","B","a","r">>
Txt_Zz_Gas == <<"Z","z"," ","G","a","s">>
Txt_Cafe_Inn == <<"C","a","f","e"," ","I","n","n">>
Txt_Cafe_Bar_receipt == <<"C","a","f","e"," ","B","a","r"," ","r","e","c","e","i","p","t">>
Iso_2023_11_02 == <<"2","0","2","3","-","1","1","-","0","2">>
Slash_2023_11_01 == <<"2","0","2","3","/","1","1","/","0","1">>
Iso_2023_02_30 == <<"2","0","2","3","-","0","2","-","3","0">>
Basic_2023_11_02 == <<"2","0","2","3","1","1","0","2">>

Statement(id, date, description, amount) ==
    [id |-> id, date |-> date, description |-> description, amount |-> amount]

Voucher(id, vendor_name, transaction_date, total_amount, raw_text, matched) ==
    [id |-> id, vendor_name |-> vendor_name, transaction_date |-> transaction_date,
     total_amount |-> total_amount, raw_text |-> raw_text, matched |-> matched]

\* Statements of a matching run: two debits that compete for the same vouchers,
\* a credit, a zero amount, and a debit whose date string does not parse
StatementPool ==
    { Statement(Some("s1"), DateObj(2023, 11, 1), Txt_CAFE_BAR_1, -5),
      Statement(None, DateStr(Iso_2023_11_02), Txt_cafe_x, -5),
      Statement(Some("s4"), DateObj(2023, 11, 1), Txt_CAFE_BAR_1, 5),
      Statement(None, DateStr(Iso_2023_11_02), Txt_cafe_x, 0),
      Statement(Some("s6"), DateStr(Slash_2023_11_01), Txt_CAFE_BAR_1, -5) }

\* Vouchers of a matching run, at 0, 2 and 3 days from the first statement; one
\* carries a '_matched' flag left by an earlier run
VoucherPool ==
    { Voucher(Some("v1"), Txt_Cafe_Bar, DateObj(2023, 11, 1), Some(5),
              Txt_Cafe_Bar_receipt, FALSE),
      Voucher(Some("v2"), Txt_Zz_Gas, DateObj(2023, 10, 29), Some(5), <<>>, FALSE),
      Voucher(None, Txt_Cafe_Inn, DateObj(2023, 10, 30), Some(5), <<>>, FALSE),
      Voucher(Some("v4"), Txt_Cafe_Bar, DateObj(2023, 11, 1), Some(5),
              Txt_Cafe_Bar_receipt, TRUE) }

\* Arguments of a direct find_matching_voucher call: the above, and statements
\* without text in common with any vendor, with another amount, with a missing
\* date and with an impossible date
FindStatementPool ==
    StatementPool \cup
    { Statement(Some("s3"), DateObj(2023, 11, 1), Txt_ZZ, -5),
      Statement(None, DateObj(2023, 11, 1), Txt_CAFE_BAR_1, -3),
      Statement(None, NoDate, Txt_CAFE_BAR_1, -5),
      Statement(None, DateStr(Iso_2023_02_30), Txt_CAFE_BAR_1, -5) }

\* ... and vouchers with an empty vendor name, another amount, a negative
\* amount, no amount, and a date that is not a date object
FindVoucherPool ==
    VoucherPool \cup
    { Voucher(Some("v5"), <<>>, DateObj(2023, 11, 2), Some(5), <<>>, FALSE),
      Voucher(None, Txt_Cafe_Bar, DateObj(2023, 11, 1), Some(3), <<>>, FALSE),
      Voucher(None, Txt_Cafe_Bar, DateObj(2023, 11, 1), Some(-5), <<>>, FALSE),
      Voucher(None, Txt_Cafe_Bar, DateObj(2023, 11, 1), None, <<>>, FALSE),
      Voucher(None, Txt_Cafe_Bar, DateStr(Iso_2023_11_02), Some(5), <<>>, FALSE) }

Rule(name, keywords, account) ==
    [name |-> name, keywords |-> keywords, account |-> account]

Rule_CafeBar == Rule("Cafe Bar Rule", << <<"c","a","f","e"," ","b","a","r">> >>, "Meals")
Rule_CAFE == Rule("Cafe Rule", << <<"C","A","F","E">> >>, "Food")
Rule_NoKeywords == Rule("No Keywords", <<>>, "Misc")
Rule_NoAccount == Rule("Inn Rule", << <<"g","a","s">>, <<"i","n","n">> >>, "")
Rule_X == Rule("X Rule", << <<"q">>, <<"x">> >>, "Other")
Rule_EmptyKeyword == Rule("Any Rule", << <<>> >>, "General")

\* rules.yml entries: overlapping keywords, a keyword written in upper case, a
\* rule without keywords, a rule without account and a rule whose keyword is ''
RulePool ==
    {Rule_CafeBar, Rule_CAFE, Rule_NoKeywords, Rule_NoAccount, Rule_X,
     Rule_EmptyKeyword}

\* Descriptions handed to apply_rules_to_transaction; the empty one stands for '' and None
RuleTextPool == {Txt_CAFE_BAR_1, Txt_cafe_x, Txt_ZZ, Txt_Cafe_Inn, <<>>}

\* The statements and vouchers that the match results of a
\* generate_journal_entries call refer to
GenStatements ==
    << Statement(Some("s1"), DateObj(2023, 11, 1), Txt_CAFE_BAR_1, -5),
       Statement(Some("s2"), DateObj(2023, 11, 1), Txt_CAFE_BAR_1, 5),
       Statement(None, DateStr(Iso_2023_11_02), Txt_cafe_x, 0),
       Statement(Some("s4"), DateStr(Slash_2023_11_01), Txt_CAFE_BAR_1, -5),
       Statement(None, DateStr(Iso_2023_11_02), Txt_cafe_x, -5),
       Statement(Some("s6"), DateObj(2023, 11, 1), Txt_ZZ, 7),
       Statement(None, DateStr(Basic_2023_11_02), Txt_cafe_x, -5),
       Statement(None, NoDate, Txt_cafe_x, -5) >>

GenVouchers ==
    << Voucher(Some("v1"), Txt_Cafe_Bar, DateObj(2023, 11, 1), Some(5),
               Txt_Cafe_Bar_receipt, TRUE),
       Voucher(None, Txt_Cafe_Inn, DateObj(2023, 10, 30), Some(5), <<>>, TRUE),
       Voucher(Some("v3"), <<>>, DateObj(2023, 11, 1), Some(5), <<>>, FALSE) >>

Item(statement, voucher, status) ==
    [statement |-> statement, voucher |-> voucher, status |-> status]

\* Match results: the rows of the state table, and the combinations outside it
ItemPool ==
    { Item(1, 1, "matched"), Item(5, 2, "matched"), Item(1, 3, "matched"),
      Item(2, 1, "matched"), Item(3, 1, "matched"), Item(1, 0, "matched"),
      Item(1, 0, "unmatched"), Item(4, 0, "unmatched"), Item(2, 0, "unmatched"),
      Item(0, 0, "unmatched"), Item(7, 0, "unmatched"), Item(8, 0, "unmatched"),
      Item(3, 0, "unmatched"),
      Item(2, 0, "ignored_credit_or_zero"), Item(6, 0, "ignored_credit_or_zero"),
      Item(3, 0, "ignored_credit_or_zero"), Item(1, 0, "ignored_credit_or_zero"),
      Item(1, 1, "other") }

GenRuleConfigs ==
    { <<>>, <<Rule_CafeBar, Rule_CAFE>>, <<Rule_NoAccount, Rule_NoKeywords, Rule_CafeBar>> }

Account(name, type) == [name |-> name, type |-> type]

\* accounts.yml
AccountsConfig ==
    << Account("Checking Account", "Asset"), Account("Meals", "Expense"),
       Account("Suspense", "Equity") >>

BankNames == {"Checking Account", "My Other Bank"}

\* line 108: the default of date_tolerance_days, which main.py leaves as it is
DefaultTolerance == 3

\* The trial balance before generate_trial_balance is called: no totals, no
\* CSV file written, nothing returned
NoTrialBalance == [account_totals |-> <<>>, csv |-> <<>>, returned |-> <<>>]

\* Run B where there is no second call
NoRun == [pc |-> "none", idx |-> 0, matches |-> <<>>, vouchers |-> <<>>,
          shared |-> TRUE, cleared |-> {}]

\* Tolerances of a direct call
Tolerances == {0, DefaultTolerance}

----------------------------------------------------------------------------
(* A matching run: match_transactions_to_vouchers(statements, vouchers, tolerance) *)

Init ==
    /\ statement_transactions \in SeqsUpTo(StatementPool, MaxStatements)
    /\ vouchers \in SeqsUpTo(VoucherPool, MaxVouchers)
    /\ date_tolerance_days = DefaultTolerance
    /\ pc = "reset"
    /\ idx = 0
    /\ matches = <<>>
    /\ found = 0
    /\ text_in = <<>>
    /\ rules_config = <<>>
    /\ rule_out = 0
    /\ matched_results = <<>>
    /\ default_bank_account_name = ""
    /\ accounts_config = <<>>
    /\ journal_entries = <<>>
    /\ run_b = NoRun
    /\ trial_balance = NoTrialBalance

\* lines 122-126
ResetMatchState ==
    /\ pc = "reset"
    /\ vouchers' = ResetFlags(vouchers)
    /\ matches' = <<>>
    /\ idx' = 1
    /\ pc' = "loop"
    /\ UNCHANGED <<statement_transactions, date_tolerance_days, found, text_in,
                   rules_config, rule_out, matched_results,
                   default_bank_account_name, accounts_config, journal_entries>>
    /\ UNCHANGED trial_balance
    /\ UNCHANGED run_b

\* Mutant of MatchStep: a credit or zero amount is passed over without a result
MatchStepSkipsCredits ==
    /\ pc = "loop"
    /\ idx <= Len(statement_transactions)
    /\ LET st_transaction == statement_transactions[idx]
           matched_voucher ==
               IF IgnoredCreditOrZero(st_transaction.amount) THEN 0
               ELSE find_matching_voucher(st_transaction, vouchers, date_tolerance_days)
       IN  /\ vouchers' = IF matched_voucher # 0
                          THEN MarkMatched(vouchers, matched_voucher)
                          ELSE vouchers
           /\ matches' = IF IgnoredCreditOrZero(st_transaction.amount) THEN matches
                         ELSE Append(matches, MatchResult(idx, matched_voucher))
    /\ idx' = idx + 1
    /\ UNCHANGED <<statement_transactions, date_tolerance_days, pc, found, text_in,
                   rules_config, rule_out, matched_results,
                   default_bank_account_name, accounts_config, journal_entries>>
    /\ UNCHANGED trial_balance
    /\ UNCHANGED run_b

\* lines 136-148: one iteration of the loop over the statements
MatchStep ==
    /\ pc = "loop"
    /\ idx <= Len(statement_transactions)
    /\ LET st_transaction == statement_transactions[idx]
           matched_voucher ==
               IF IgnoredCreditOrZero(st_transaction.amount) THEN 0
               ELSE find_matching_voucher(st_transaction, vouchers, date_tolerance_days)
       IN  /\ vouchers' = IF matched_voucher # 0
                          THEN MarkMatched(vouchers, matched_voucher)
                          ELSE vouchers
           /\ matches' = Append(matches, MatchResult(idx, matched_voucher))
    /\ idx' = idx + 1
    /\ UNCHANGED <<statement_transactions, date_tolerance_days, pc, found, text_in,
                   rules_config, rule_out, matched_results,
                   default_bank_account_name, accounts_config, journal_entries>>
    /\ UNCHANGED trial_balance
    /\ UNCHANGED run_b

\* line 150
ReturnMatches ==
    /\ pc = "loop"
    /\ idx > Len(statement_transactions)
    /\ pc' = "done"
    /\ UNCHANGED <<statement_transactions, vouchers, date_tolerance_days, idx, matches,
                   found, text_in, rules_config, rule_out, matched_results,
                   default_bank_account_name, accounts_config, journal_entries>>
    /\ UNCHANGED trial_balance
    /\ UNCHANGED run_b

Next == ResetMatchState \/ MatchStep \/ ReturnMatches

Spec == Init /\ [][Next]_vars

----------------------------------------------------------------------------
(* A direct call find_matching_voucher(tx, vouchers, tolerance) *)

InitFind ==
    /\ statement_transactions \in [1..1 -> FindStatementPool]
    /\ vouchers \in SeqsUpTo(FindVoucherPool, MaxVouchers)
    /\ date_tolerance_days \in Tolerances
    /\ pc = "find"
    /\ idx = 0
    /\ matches = <<>>
    /\ found = 0
    /\ text_in = <<>>
    /\ rules_config = <<>>
    /\ rule_out = 0
    /\ matched_results = <<>>
    /\ default_bank_account_name = ""
    /\ accounts_config = <<>>
    /\ journal_entries = <<>>
    /\ run_b = NoRun
    /\ trial_balance = NoTrialBalance

FindCall ==
    /\ pc = "find"
    /\ found' = find_matching_voucher(statement_transactions[1], vouchers,
                                      date_tolerance_days)
    /\ pc' = "found"
    /\ UNCHANGED <<statement_transactions, vouchers, date_tolerance_days, idx, matches,
                   text_in, rules_config, rule_out, matched_results,
                   default_bank_account_name, accounts_config, journal_entries>>
    /\ UNCHANGED trial_balance
    /\ UNCHANGED run_b

NextFind == FindCall

SpecFind == InitFind /\ [][NextFind]_vars

----------------------------------------------------------------------------
(* The two entry points of the matcher side by side: a caller either runs   *)
(* match_transactions_to_vouchers or calls find_matching_voucher directly   *)

InitFrame == Init \/ InitFind

NextFrame == ResetMatchState \/ MatchStep \/ ReturnMatches \/ FindCall

SpecFrame == InitFrame /\ [][NextFrame]_vars

----------------------------------------------------------------------------
(* A direct call apply_rules_to_transaction(description, amount, rules) *)

InitRules ==
    /\ statement_transactions = <<>>
    /\ vouchers = <<>>
    /\ date_tolerance_days = DefaultTolerance
    /\ pc = "rules"
    /\ idx = 0
    /\ matches = <<>>
    /\ found = 0
    /\ text_in \in RuleTextPool
    /\ rules_config \in SeqsUpTo(RulePool, MaxRules)
    /\ rule_out = 0
    /\ matched_results = <<>>
    /\ default_bank_account_name = ""
    /\ accounts_config = <<>>
    /\ journal_entries = <<>>
    /\ run_b = NoRun
    /\ trial_balance = NoTrialBalance

ApplyRulesCall ==
    /\ pc = "rules"
    /\ rule_out' = apply_rules_to_transaction(text_in, rules_config)
    /\ pc' = "ruled"
    /\ UNCHANGED <<statement_transactions, vouchers, date_tolerance_days, idx, matches,
                   found, text_in, rules_config, matched_results,
                   default_bank_account_name, accounts_config, journal_entries>>
    /\ UNCHANGED trial_balance
    /\ UNCHANGED run_b

NextRules == ApplyRulesCall

SpecRules == InitRules /\ [][NextRules]_vars

----------------------------------------------------------------------------
(* A call generate_journal_entries(matched_results, accounts, rules, bank) *)

InitGen ==
    /\ statement_transactions = GenStatements
    /\ vouchers = GenVouchers
    /\ date_tolerance_days = DefaultTolerance
    /\ pc = "gen_start"
    /\ idx = 0
    /\ matches = <<>>
    /\ found = 0
    /\ text_in = <<>>
    /\ rules_config \in GenRuleConfigs
    /\ rule_out = 0
    /\ matched_results \in SeqsUpTo(ItemPool, MaxResults)
    /\ default_bank_account_name \in BankNames
    /\ accounts_config = AccountsConfig
    /\ journal_entries = <<>>
    /\ run_b = NoRun
    /\ trial_balance = NoTrialBalance

\* The dict behind a reference, None for reference 0
Deref(list, ref) == IF ref = 0 THEN None ELSE Some(list[ref])

\* lines 50-59
GenerateStart ==
    /\ pc = "gen_start"
    /\ journal_entries' = <<>>
    /\ idx' = 1
    /\ pc' = "gen_loop"
    /\ UNCHANGED <<statement_transactions, vouchers, date_tolerance_days, matches,
                   found, text_in, rules_config, rule_out, matched_results,
                   default_bank_account_name, accounts_config>>
    /\ UNCHANGED trial_balance
    /\ UNCHANGED run_b

\* Mutant of GenerateStep: the new entry is put in front of the list
GenerateStepPrepends ==
    /\ pc = "gen_loop"
    /\ idx <= Len(matched_results)
    /\ LET item == matched_results[idx]
           entry == GenerateEntry(Deref(statement_transactions, item.statement),
                                  Deref(vouchers, item.voucher), item.status,
                                  rules_config,
                                  BankAccountName(accounts_config,
                                                  default_bank_account_name))
       IN  journal_entries' = IF entry # None THEN <<entry[1]>> \o journal_entries
                              ELSE journal_entries
    /\ idx' = idx + 1
    /\ UNCHANGED <<statement_transactions, vouchers, date_tolerance_days, pc, matches,
                   found, text_in, rules_config, rule_out, matched_results,
                   default_bank_account_name, accounts_config>>
    /\ UNCHANGED trial_balance
    /\ UNCHANGED run_b

\* lines 62-143: one iteration of the loop over the match results
GenerateStep ==
    /\ pc = "gen_loop"
    /\ idx <= Len(matched_results)
    /\ LET item == matched_results[idx]
           entry == GenerateEntry(Deref(statement_transactions, item.statement),
                                  Deref(vouchers, item.voucher), item.status,
                                  rules_config,
                                  BankAccountName(accounts_config,
                                                  default_bank_account_name))
       IN  journal_entries' = IF entry # None THEN Append(journal_entries, entry[1])
                              ELSE journal_entries
    /\ idx' = idx + 1
    /\ UNCHANGED <<statement_transactions, vouchers, date_tolerance_days, pc, matches,
                   found, text_in, rules_config, rule_out, matched_results,
                   default_bank_account_name, accounts_config>>
    /\ UNCHANGED trial_balance
    /\ UNCHANGED run_b

\* line 145
GenerateReturn ==
    /\ pc = "gen_loop"
    /\ idx > Len(matched_results)
    /\ pc' = "gen_done"
    /\ UNCHANGED <<statement_transactions, vouchers, date_tolerance_days, idx, matches,
                   found, text_in, rules_config, rule_out, matched_results,
                   default_bank_account_name, accounts_config, journal_entries>>
    /\ UNCHANGED trial_balance
    /\ UNCHANGED run_b

NextGen == GenerateStart \/ GenerateStep \/ GenerateReturn

SpecGen == InitGen /\ [][NextGen]_vars

----------------------------------------------------------------------------
(* Two calls match_transactions_to_vouchers(statements, vouchers): run A,   *)
(* above, and run B.  Run B is handed the statements of run A and either   *)
(* the very list of voucher dicts that run A is handed or a copy of it.    *)
(* A step of a run is the reset (lines 122-126) or one iteration of the    *)
(* loop (lines 136-148).                                                   *)

MaxRunStatements == 2

\* Statements of the two runs: two debits that compete for a voucher, a credit
TwoRunStatementPool ==
    { Statement(Some("s1"), DateObj(2023, 11, 1), Txt_CAFE_BAR_1, -5),
      Statement(None, DateStr(Iso_2023_11_02), Txt_cafe_x, -5),
      Statement(Some("s4"), DateObj(2023, 11, 1), Txt_CAFE_BAR_1, 5) }

\* Vouchers of the two runs; one carries a '_matched' flag set before the calls
TwoRunVoucherPool ==
    { Voucher(Some("v1"), Txt_Cafe_Bar, DateObj(2023, 11, 1), Some(5),
              Txt_Cafe_Bar_receipt, FALSE),
      Voucher(Some("v4"), Txt_Cafe_Inn, DateObj(2023, 10, 30), Some(5), <<>>, TRUE) }

\* Mutant of SharesVoucherList: a copy of the list still holds the same dicts
SharesVoucherListAlways(run) == TRUE

\* line 108: available_vouchers is the caller's list of dicts itself unless the
\* caller hands over a copy
SharesVoucherList(run) == run.shared

\* The voucher list that run B reads and marks
VouchersOfB == IF SharesVoucherList(run_b) THEN vouchers ELSE run_b.vouchers

\* Run B leaves new_list as its voucher list and new_run as its position
StoreB(new_list, new_run) ==
    IF SharesVoucherList(run_b)
    THEN vouchers' = new_list /\ run_b' = new_run
    ELSE vouchers' = vouchers /\ run_b' = [new_run EXCEPT !.vouchers = new_list]

InitTwoRuns ==
    /\ statement_transactions \in SeqsUpTo(TwoRunStatementPool, MaxRunStatements)
    /\ vouchers \in SeqsUpTo(TwoRunVoucherPool, MaxVouchers)
    /\ date_tolerance_days = DefaultTolerance
    /\ pc = "reset"
    /\ idx = 0
    /\ matches = <<>>
    /\ found = 0
    /\ text_in = <<>>
    /\ rules_config = <<>>
    /\ rule_out = 0
    /\ matched_results = <<>>
    /\ default_bank_account_name = ""
    /\ accounts_config = <<>>
    /\ journal_entries = <<>>
    /\ \E shared \in BOOLEAN :
          run_b = [pc |-> "reset", idx |-> 0, matches |-> <<>>,
                   vouchers |-> IF shared THEN <<>> ELSE vouchers,
                   shared |-> shared, cleared |-> {}]
    /\ trial_balance = NoTrialBalance

\* lines 122-126 in run B; cleared keeps the vouchers whose flag this reset
\* turns off
ResetMatchStateB ==
    /\ run_b.pc = "reset"
    /\ StoreB(ResetFlags(VouchersOfB),
              [run_b EXCEPT !.pc = "loop", !.idx = 1, !.matches = <<>>,
                            !.cleared = {k \in 1..Len(VouchersOfB) :
                                            VouchersOfB[k].matched}])
    /\ UNCHANGED <<statement_transactions, date_tolerance_days, pc, idx, matches,
                   found, text_in, rules_config, rule_out, matched_results,
                   default_bank_account_name, accounts_config, journal_entries>>
    /\ UNCHANGED trial_balance

\* lines 136-148 in run B
MatchStepB ==
    /\ run_b.pc = "loop"
    /\ run_b.idx <= Len(statement_transactions)
    /\ LET st_transaction == statement_transactions[run_b.idx]
           matched_voucher ==
               IF IgnoredCreditOrZero(st_transaction.amount) THEN 0
               ELSE find_matching_voucher(st_transaction, VouchersOfB,
                                          date_tolerance_days)
       IN  StoreB(IF matched_voucher # 0
                  THEN MarkMatched(VouchersOfB, matched_voucher)
                  ELSE VouchersOfB,
                  [run_b EXCEPT !.idx = run_b.idx + 1,
                                !.matches = Append(run_b.matches,
                                                   MatchResult(run_b.idx,
                                                               matched_voucher))])
    /\ UNCHANGED <<statement_transactions, date_tolerance_days, pc, idx, matches,
                   found, text_in, rules_config, rule_out, matched_results,
                   default_bank_account_name, accounts_config, journal_entries>>
    /\ UNCHANGED trial_balance

\* line 150 in run B
ReturnMatchesB ==
    /\ run_b.pc = "loop"
    /\ run_b.idx > Len(statement_transactions)
    /\ run_b' = [run_b EXCEPT !.pc = "done"]
    /\ UNCHANGED <<statement_transactions, vouchers, date_tolerance_days, pc, idx,
                   matches, found, text_in, rules_config, rule_out, matched_results,
                   default_bank_account_name, accounts_config, journal_entries>>
    /\ UNCHANGED trial_balance

\* The two runs interleave step by step
NextTwoRuns ==
    \/ ResetMatchState \/ MatchStep \/ ReturnMatches
    \/ ResetMatchStateB \/ MatchStepB \/ ReturnMatchesB

SpecTwoRuns == InitTwoRuns /\ [][NextTwoRuns]_vars

\* Run B is called on the list of run A after run A has returned
InitRepeated == InitTwoRuns /\ run_b.shared

NextRepeated ==
    \/ ResetMatchState \/ MatchStep \/ ReturnMatches
    \/ (pc = "done" /\ (ResetMatchStateB \/ MatchStepB \/ ReturnMatchesB))

SpecRepeated == InitRepeated /\ [][NextRepeated]_vars

----------------------------------------------------------------------------
(* A run of match_transactions_to_vouchers over statements that compete for *)
(* vouchers unevenly: the first debit passes the filters of both vouchers,  *)
(* the second, three days later, those of the first voucher only            *)

Txt_BAR == <<"B","A","R">>

GreedyStatementPool ==
    { Statement(Some("s1"), DateObj(2023, 11, 1), Txt_CAFE_BAR_1, -5),
      Statement(Some("s2"), DateObj(2023, 11, 4), Txt_BAR, -5),
      Statement(Some("s4"), DateObj(2023, 11, 1), Txt_CAFE_BAR_1, 5) }

GreedyVoucherPool ==
    { Voucher(Some("v1"), Txt_Cafe_Bar, DateObj(2023, 11, 1), Some(5),
              Txt_Cafe_Bar_receipt, FALSE),
      Voucher(None, Txt_Cafe_Inn, DateObj(2023, 10, 30), Some(5), <<>>, FALSE),
      Voucher(Some("v4"), Txt_Cafe_Inn, DateObj(2023, 10, 30), Some(5), <<>>, TRUE) }

InitGreedy ==
    /\ statement_transactions \in SeqsUpTo(GreedyStatementPool, MaxRunStatements)
    /\ vouchers \in SeqsUpTo(GreedyVoucherPool, MaxVouchers)
    /\ date_tolerance_days = DefaultTolerance
    /\ pc = "reset"
    /\ idx = 0
    /\ matches = <<>>
    /\ found = 0
    /\ text_in = <<>>
    /\ rules_config = <<>>
    /\ rule_out = 0
    /\ matched_results = <<>>
    /\ default_bank_account_name = ""
    /\ accounts_config = <<>>
    /\ journal_entries = <<>>
    /\ run_b = NoRun
    /\ trial_balance = NoTrialBalance

SpecGreedy == InitGreedy /\ [][Next]_vars

----------------------------------------------------------------------------
(* A call generate_trial_balance(journal_entries, output_csv_path) *)

\* A journal entry as generate_trial_balance reads it
Entry(description, postings) ==
    [date |-> IsoFormat([y |-> 2023, m |-> 11, d |-> 1]),
     description |-> description, postings |-> postings]

\* Journal entries: balanced, unbalanced, with a posting without account name
\* between two others, with one account on both sides, and without postings
TrialEntryPool ==
    { Entry("Sale", <<Posting("Cash", 5, 0), Posting("Sales", 0, 5)>>),
      Entry("Unbalanced", <<Posting("Cash", 5, 0), Posting("Sales", 0, 3)>>),
      Entry("No account", <<Posting("Rent", 2, 0), Posting("", 1, 0),
                            Posting("Cash", 0, 2)>>),
      Entry("Transfer", <<Posting("Cash", 2, 0), Posting("Cash", 0, 2)>>),
      Entry("No postings", <<>>),
      Entry("Nameless", <<Posting("", 4, 0), Posting("", 0, 4)>>) }

InitTrialBalance ==
    /\ statement_transactions = <<>>
    /\ vouchers = <<>>
    /\ date_tolerance_days = DefaultTolerance
    /\ pc = "tb_start"
    /\ idx = 0
    /\ matches = <<>>
    /\ found = 0
    /\ text_in = <<>>
    /\ rules_config = <<>>
    /\ rule_out = 0
    /\ matched_results = <<>>
    /\ default_bank_account_name = ""
    /\ accounts_config = <<>>
    /\ journal_entries \in SeqsUpTo(TrialEntryPool, MaxResults)
    /\ run_b = NoRun
    /\ trial_balance = NoTrialBalance

\* lines 19-35: without entries the file holds the GRAND TOTAL 0, 0 and {} is
\* returned; writing the file can fail (IOError)
TrialBalanceStart ==
    /\ pc = "tb_start"
    /\ IF journal_entries = <<>>
       THEN /\ \E io_ok \in BOOLEAN :
                  trial_balance' =
                      [account_totals |-> <<>>,
                       csv |-> IF io_ok THEN Some(CsvFile(<<>>)) ELSE None,
                       returned |-> Some([success |-> io_ok, totals |-> <<>>])]
            /\ pc' = "tb_done"
            /\ idx' = idx
       ELSE /\ trial_balance' = [NoTrialBalance EXCEPT !.account_totals = <<>>]
            /\ pc' = "tb_loop"
            /\ idx' = 1
    /\ UNCHANGED <<statement_transactions, vouchers, date_tolerance_days, matches,
                   found, text_in, rules_config, rule_out, matched_results,
                   default_bank_account_name, accounts_config, journal_entries,
                   run_b>>

\* lines 37-77: one iteration of the loop over the entries
TrialBalanceStep ==
    /\ pc = "tb_loop"
    /\ idx <= Len(journal_entries)
    /\ trial_balance' =
          [trial_balance EXCEPT
              !.account_totals = AddEntry(trial_balance.account_totals,
                                          journal_entries[idx])]
    /\ idx' = idx + 1
    /\ UNCHANGED <<statement_transactions, vouchers, date_tolerance_days, pc, matches,
                   found, text_in, rules_config, rule_out, matched_results,
                   default_bank_account_name, accounts_config, journal_entries,
                   run_b>>

\* lines 79-115: the file is written and the totals are returned
TrialBalanceFinish ==
    /\ pc = "tb_loop"
    /\ idx > Len(journal_entries)
    /\ \E io_ok \in BOOLEAN :
          trial_balance' =
              [trial_balance EXCEPT
                  !.csv = IF io_ok THEN Some(CsvFile(trial_balance.account_totals))
                          ELSE None,
                  !.returned = Some([success |-> io_ok,
                                     totals |-> trial_balance.account_totals])]
    /\ pc' = "tb_done"
    /\ UNCHANGED <<statement_transactions, vouchers, date_tolerance_days, idx, matches,
                   found, text_in, rules_config, rule_out, matched_results,
                   default_bank_account_name, accounts_config, journal_entries,
                   run_b>>

NextTrialBalance == TrialBalanceStart \/ TrialBalanceStep \/ TrialBalanceFinish

SpecTrialBalance == InitTrialBalance /\ [][NextTrialBalance]_vars

----------------------------------------------------------------------------
(* main.py, steps 4 to 6: the statements are matched, journal entries are   *)
(* generated from the match results, and the trial balance is written from  *)
(* the journal entries                                                       *)

\* str.lower() of the account types of accounts.yml
LowerType(type) ==
    CASE type = "Asset" -> "asset"
      [] type = "Expense" -> "expense"
      [] type = "Equity" -> "equity"
      [] OTHER -> type

\* main.py lines 129-133: the name of the first asset account that has a name,
\* "Checking Account" when there is none
MainBankAccountName(accounts) ==
    LET asset_accounts ==
            {k \in 1..Len(accounts) :
                LowerType(accounts[k].type) = "asset" /\ accounts[k].name # ""}
    IN  IF asset_accounts = {} THEN "Checking Account"
        ELSE accounts[CHOOSE k \in asset_accounts :
                         \A j \in asset_accounts : k <= j].name

\* Statements and vouchers are those of the matching runs above; rules.yml and
\* accounts.yml are read before step 4
InitPipeline ==
    /\ statement_transactions \in SeqsUpTo(StatementPool, MaxRunStatements)
    /\ vouchers \in SeqsUpTo(TwoRunVoucherPool, MaxVouchers)
    /\ date_tolerance_days = DefaultTolerance
    /\ pc = "reset"
    /\ idx = 0
    /\ matches = <<>>
    /\ found = 0
    /\ text_in = <<>>
    /\ rules_config \in GenRuleConfigs
    /\ rule_out = 0
    /\ matched_results = <<>>
    /\ default_bank_account_name = ""
    /\ accounts_config = AccountsConfig
    /\ journal_entries = <<>>
    /\ run_b = NoRun
    /\ trial_balance = NoTrialBalance

\* main.py lines 124-136: the list returned by step 4 is handed to step 5
MainGenerate ==
    /\ pc = "done"
    /\ matched_results' = matches
    /\ default_bank_account_name' = MainBankAccountName(accounts_config)
    /\ pc' = "gen_start"
    /\ UNCHANGED <<statement_transactions, vouchers, date_tolerance_days, idx, matches,
                   found, text_in, rules_config, rule_out, accounts_config,
                   journal_entries, run_b, trial_balance>>

\* main.py lines 136, 159: the list returned by step 5 is handed to step 6
MainTrialBalance ==
    /\ pc = "gen_done"
    /\ pc' = "tb_start"
    /\ UNCHANGED <<statement_transactions, vouchers, date_tolerance_days, idx, matches,
                   found, text_in, rules_config, rule_out, matched_results,
                   default_bank_account_name, accounts_config, journal_entries,
                   run_b, trial_balance>>

NextPipeline ==
    \/ ResetMatchState \/ MatchStep \/ ReturnMatches
    \/ MainGenerate
    \/ GenerateStart \/ GenerateStep \/ GenerateReturn
    \/ MainTrialBalance
    \/ TrialBalanceStart \/ TrialBalanceStep \/ TrialBalanceFinish

SpecPipeline == InitPipeline /\ [][NextPipeline]_vars

----------------------------------------------------------------------------
(* A call generate_journal_entries(...) whose result is handed to           *)
(* generate_trial_balance, as in steps 5 and 6 of main.py.  The bank        *)
(* account name is the caller's: a name of accounts.yml or the empty string *)

\* Match results of the call: rows of the state table, among them 'matched'
\* results whose voucher amount is not that of the statement, and a result
\* without statement
GenTrialItemPool ==
    { Item(1, 1, "matched"), Item(5, 2, "matched"), Item(2, 1, "matched"),
      Item(3, 1, "matched"), Item(1, 0, "unmatched"), Item(0, 0, "unmatched"),
      Item(2, 0, "ignored_credit_or_zero"), Item(6, 0, "ignored_credit_or_zero") }

GenTrialBankNames == {"Checking Account", ""}

InitGenTrial ==
    /\ statement_transactions = GenStatements
    /\ vouchers = GenVouchers
    /\ date_tolerance_days = DefaultTolerance
    /\ pc = "gen_start"
    /\ idx = 0
    /\ matches = <<>>
    /\ found = 0
    /\ text_in = <<>>
    /\ rules_config \in GenRuleConfigs
    /\ rule_out = 0
    /\ matched_results \in SeqsUpTo(GenTrialItemPool, MaxResults)
    /\ default_bank_account_name \in GenTrialBankNames
    /\ accounts_config = AccountsConfig
    /\ journal_entries = <<>>
    /\ run_b = NoRun
    /\ trial_balance = NoTrialBalance

NextGenTrial ==
    \/ GenerateStart \/ GenerateStep \/ GenerateReturn
    \/ MainTrialBalance
    \/ TrialBalanceStart \/ TrialBalanceStep \/ TrialBalanceFinish

SpecGenTrial == InitGenTrial /\ [][NextGenTrial]_vars

----------------------------------------------------------------------------
(* Properties of the matcher *)

\* The statement of result a
StatementOf(a) == statement_transactions[matches[a].statement]

\* What sections 4.2 of the design asks of a candidate, whatever its flag: the
\* statement is a debit with a date, the voucher has a date and the amount of
\* the statement, within the tolerance
PassesAmountAndDate(tx, voucher, tolerance) ==
    /\ tx.amount < 0
    /\ StatementDate(tx) # None
    /\ voucher.transaction_date.kind = "date"
    /\ voucher.total_amount = Some(-tx.amount)
    /\ Abs(Ordinal(StatementDate(tx)[1]) - Ordinal(voucher.transaction_date.val))
           <= tolerance

\* The score as the design states it
StatedScore(tx, voucher, tolerance) ==
    LET desc == Lower(tx.description)
        vendor == Lower(voucher.vendor_name)
        diff == Abs(Ordinal(StatementDate(tx)[1]) - Ordinal(voucher.transaction_date.val))
        tokens == Split(vendor)
        bonus == IF vendor # <<>> /\ IsSubstring(vendor, desc) THEN 50
                 ELSE 10 * Cardinality({k \in 1..Len(tokens) :
                                          Len(tokens[k]) > 2 /\ IsSubstring(tokens[k], desc)})
    IN  (tolerance - diff) * 10 + bonus

Eligible(tx, voucher, tolerance) ==
    /\ PassesAmountAndDate(tx, voucher, tolerance)
    /\ StatedScore(tx, voucher, tolerance) > 0

MatchedTo(a, k) == matches[a].status = "matched" /\ matches[a].voucher = k

\* C1: in a matching run, each voucher is the voucher of at most one result
\* with status 'matched'.
C1_VoucherMatchedAtMostOnce ==
    \A a, b \in 1..Len(matches) :
        (/\ matches[a].status = "matched"
         /\ matches[b].status = "matched"
         /\ matches[a].voucher = matches[b].voucher) => a = b

\* C1 witness: the run is over, a voucher went to one statement and a later
\* debit that is eligible for the same voucher was left unmatched.
C1_Witness ==
    /\ pc = "done"
    /\ \E a, b \in 1..Len(matches) :
          /\ a < b
          /\ matches[a].status = "matched"
          /\ matches[b].status = "unmatched"
          /\ Eligible(StatementOf(b), vouchers[matches[a].voucher], date_tolerance_days)

\* The vouchers of the run that statement c is eligible for
EligibleVouchers(c) ==
    {j \in 1..Len(vouchers) :
        Eligible(statement_transactions[c], vouchers[j], date_tolerance_days)}

\* C2 as stated: of two debit statements eligible for the same voucher and for
\* no other, the earlier is 'matched' with that voucher and the later is
\* 'unmatched'.
C2_EarlierMatchedLaterUnmatched ==
    pc = "done" =>
        \A a \in 1..Len(statement_transactions) :
            LET ea == EligibleVouchers(a)
            IN  Cardinality(ea) = 1 =>
                    \A b \in (a + 1)..Len(statement_transactions) :
                        EligibleVouchers(b) = ea =>
                            /\ \A k \in ea : MatchedTo(a, k)
                            /\ matches[b].status = "unmatched"

\* C2 as amended: the later statement is 'unmatched', and the earlier one is
\* 'matched' with that voucher unless a statement before it in the run was
\* matched with it; the later one never gets the voucher.
C2_EarlierHasPriority ==
    pc = "done" =>
        \A a \in 1..Len(statement_transactions) :
            LET ea == EligibleVouchers(a)
            IN  Cardinality(ea) = 1 =>
                    \A b \in (a + 1)..Len(statement_transactions) :
                        EligibleVouchers(b) = ea =>
                            /\ matches[b].status = "unmatched"
                            /\ \A k \in ea :
                                  MatchedTo(a, k) \/ \E h \in 1..(a - 1) : MatchedTo(h, k)

\* C2 witness: two statements that compete for one voucher only; the earlier
\* one got it.
C2_Witness ==
    /\ pc = "done"
    /\ \E a, b \in 1..Len(statement_transactions), k \in 1..Len(vouchers) :
          /\ a < b
          /\ EligibleVouchers(a) = {k}
          /\ EligibleVouchers(b) = {k}
          /\ MatchedTo(a, k)
          /\ matches[b].status = "unmatched"
          /\ matches[b].voucher = 0

\* C3: a voucher returned by find_matching_voucher was returned for a debit,
\* does not carry the '_matched' flag, has exactly the absolute amount of the
\* statement (so it is not negative) and lies within the tolerance; a credit
\* or zero amount returns None.
C3_FoundVoucherPassesFilters ==
    pc = "found" =>
        LET tx == statement_transactions[1]
        IN  /\ found # 0 =>
                  /\ found \in 1..Len(vouchers)
                  /\ tx.amount < 0
                  /\ ~vouchers[found].matched
                  /\ vouchers[found].total_amount = Some(-tx.amount)
                  /\ vouchers[found].total_amount[1] >= 0
                  /\ PassesAmountAndDate(tx, vouchers[found], date_tolerance_days)
            /\ tx.amount >= 0 => found = 0

\* C3 witness: a voucher was returned although the list also holds a flagged
\* voucher and a voucher with the negated amount.
C3_Witness ==
    /\ pc = "found"
    /\ found # 0
    /\ \E k \in 1..Len(vouchers) :
          \/ vouchers[k].matched
          \/ vouchers[k].total_amount = Some(statement_transactions[1].amount)

\* The candidates of a call, as the design states them
StatedCandidates(tx, vs, tolerance) ==
    {k \in 1..Len(vs) : ~vs[k].matched /\ Eligible(tx, vs[k], tolerance)}

\* Candidate k is preferred to candidate j: higher score, then smaller date
\* difference, then earlier in the list
Preferred(tx, vs, tolerance, k, j) ==
    LET sk == StatedScore(tx, vs[k], tolerance)
        sj == StatedScore(tx, vs[j], tolerance)
        dk == Abs(Ordinal(StatementDate(tx)[1]) - Ordinal(vs[k].transaction_date.val))
        dj == Abs(Ordinal(StatementDate(tx)[1]) - Ordinal(vs[j].transaction_date.val))
    IN  \/ sk > sj
        \/ sk = sj /\ dk < dj
        \/ sk = sj /\ dk = dj /\ k <= j

\* C4: for a debit, find_matching_voucher returns the candidate with the
\* maximum score (date score plus 50 for the whole vendor name, else 10 per
\* vendor token longer than 2 characters found in the description), ties
\* broken by the smallest date difference and then by position in the list.
C4_BestCandidateReturned ==
    (pc = "found" /\ statement_transactions[1].amount < 0) =>
        LET tx == statement_transactions[1]
            cands == StatedCandidates(tx, vouchers, date_tolerance_days)
        IN  IF cands = {} THEN found = 0
            ELSE /\ found \in cands
                 /\ \A j \in cands :
                        Preferred(tx, vouchers, date_tolerance_days, found, j)

\* C4 witness: two candidates of equal score, the returned one later in the
\* list and closer in date.
C4_Witness ==
    /\ pc = "found"
    /\ found # 0
    /\ LET tx == statement_transactions[1]
       IN  \E j \in StatedCandidates(tx, vouchers, date_tolerance_days) :
              /\ j < found
              /\ StatedScore(tx, vouchers[j], date_tolerance_days)
                     = StatedScore(tx, vouchers[found], date_tolerance_days)

\* C5: every result of a run is 'ignored_credit_or_zero' without voucher for
\* an amount >= 0, and 'matched' with a voucher or 'unmatched' without one for
\* an amount < 0.
C5_StatusByAmount ==
    \A a \in 1..Len(matches) :
        /\ matches[a].statement = a
        /\ IF statement_transactions[a].amount >= 0
           THEN matches[a].status = "ignored_credit_or_zero" /\ matches[a].voucher = 0
           ELSE \/ matches[a].status = "matched" /\ matches[a].voucher \in 1..Len(vouchers)
                \/ matches[a].status = "unmatched" /\ matches[a].voucher = 0

\* C5 witness: a finished run with the three statuses, one of them for a zero
\* amount.
C5_Witness ==
    /\ pc = "done"
    /\ \E a, b, c, z \in 1..Len(matches) :
          /\ matches[a].status = "matched"
          /\ matches[b].status = "unmatched"
          /\ matches[c].status = "ignored_credit_or_zero"
          /\ statement_transactions[z].amount = 0

\* C6: with an empty voucher list every debit is 'unmatched', every other
\* statement 'ignored_credit_or_zero', and nothing is 'matched'.
C6_NoVouchersAllDebitsUnmatched ==
    vouchers = <<>> =>
        /\ pc = "done" => Len(matches) = Len(statement_transactions)
        /\ \A a \in 1..Len(matches) :
              /\ matches[a].status # "matched"
              /\ statement_transactions[a].amount < 0 => matches[a].status = "unmatched"
              /\ statement_transactions[a].amount >= 0
                     => matches[a].status = "ignored_credit_or_zero"

\* C6 witness: a finished run without vouchers over debits and a credit.
C6_Witness ==
    /\ pc = "done"
    /\ vouchers = <<>>
    /\ \E a, b \in 1..Len(matches) :
          /\ matches[a].status = "unmatched"
          /\ matches[b].status = "ignored_credit_or_zero"

----------------------------------------------------------------------------
(* Properties of the rule engine *)

\* The rules of the list that have keywords, one of which, lower-cased, is
\* part of the lower-cased text
EligibleRules(text, rules) ==
    {k \in 1..Len(rules) :
        /\ Len(rules[k].keywords) > 0
        /\ \E j \in 1..Len(rules[k].keywords) :
              IsSubstring(Lower(rules[k].keywords[j]), Lower(text))}

\* C7: for a non-empty text, apply_rules_to_transaction returns the rule of
\* smallest index among the rules with a keyword that is, without regard to
\* case, part of the text, and None when there is no such rule.
C7_FirstMatchingRuleWins ==
    (pc = "ruled" /\ text_in # <<>>) =>
        LET eligible == EligibleRules(text_in, rules_config)
        IN  IF eligible = {} THEN rule_out = 0
            ELSE /\ rule_out \in eligible
                 /\ \A k \in eligible : rule_out <= k

\* C7 witness: the rule returned is followed by another rule that matches
\* too, and its keyword is written in another case than the text.
C7_Witness ==
    /\ pc = "ruled"
    /\ rule_out # 0
    /\ \E k \in EligibleRules(text_in, rules_config) : k > rule_out
    /\ \A j \in 1..Len(rules_config[rule_out].keywords) :
          ~IsSubstring(rules_config[rule_out].keywords[j], text_in)

----------------------------------------------------------------------------
(* Properties of the journal entry builder *)

\* The match result that the next iteration of the loop handles
CurrentItem == matched_results[idx]

\* The loop is about to handle a match result with the given status whose
\* statement is present and has a date that parses
Handles(status) ==
    /\ pc = "gen_loop"
    /\ idx <= Len(matched_results)
    /\ CurrentItem.status = status
    /\ CurrentItem.statement # 0
    /\ EntryDate(statement_transactions[CurrentItem.statement]) # None

\* The iteration appends one entry, with this status, confidence and notes
EmitsEntryWith(status, confidence, notes) ==
    /\ Len(journal_entries') = Len(journal_entries) + 1
    /\ LET entry == journal_entries'[Len(journal_entries')]
       IN  /\ entry.status = status
           /\ "confidence_score" \in DOMAIN entry
           /\ entry.confidence_score = confidence
           /\ "notes" \in DOMAIN entry
           /\ entry.notes = notes

\* C8: a 'matched' result with a voucher gives an entry with status
\* 'auto_generated_high_confidence', confidence 0.9 and empty notes when a rule
\* is found for the voucher's raw_text (or vendor_name), and with status
\* 'needs_review_matched_no_rule', confidence 0.6 and the no-rule note otherwise.
C8_MatchedClassification ==
    [][(Handles("matched") /\ CurrentItem.voucher # 0) =>
          IF apply_rules_to_transaction(
                 RuleSourceDescription(vouchers[CurrentItem.voucher]), rules_config) # 0
          THEN EmitsEntryWith("auto_generated_high_confidence", "0.9", "")
          ELSE EmitsEntryWith("needs_review_matched_no_rule", "0.6",
                   "Voucher matched to statement, but no specific rule found for GL account.")
      ]_vars

\* C9: an 'unmatched' result with amount < 0 gives an entry with status
\* 'needs_review_unmatched_debit', confidence 0.3 and the no-voucher note.
C9_UnmatchedDebitClassification ==
    [][(Handles("unmatched")
          /\ statement_transactions[CurrentItem.statement].amount < 0) =>
          EmitsEntryWith("needs_review_unmatched_debit", "0.3",
              "Statement debit transaction with no matching voucher.")
      ]_vars

\* C10: an 'ignored_credit_or_zero' result with amount > 0 gives an entry with
\* status 'auto_generated_income_high_confidence', confidence 0.8 and empty
\* notes when a rule is found for the statement description, and with status
\* 'needs_review_unmatched_credit', confidence 0.5 and the no-rule note otherwise.
C10_CreditClassification ==
    [][(Handles("ignored_credit_or_zero")
          /\ statement_transactions[CurrentItem.statement].amount > 0) =>
          IF apply_rules_to_transaction(
                 statement_transactions[CurrentItem.statement].description,
                 rules_config) # 0
          THEN EmitsEntryWith("auto_generated_income_high_confidence", "0.8", "")
          ELSE EmitsEntryWith("needs_review_unmatched_credit", "0.5",
                   "Statement credit transaction with no specific rule for GL account.")
      ]_vars

\* The iteration appends one entry
Emits == Len(journal_entries') = Len(journal_entries) + 1

\* The entry the iteration appends
Emitted == journal_entries'[Len(journal_entries')]

\* The statement of the match result that the iteration handles
CurrentStatement == statement_transactions[CurrentItem.statement]

\* The account that the rules give for a text: the account of the first rule
\* with a keyword in the text, the suspense account when there is no such rule
\* or it names no account
AccountFor(text, rules) ==
    LET eligible == IF text = <<>> THEN {} ELSE EligibleRules(text, rules)
    IN  IF eligible = {} THEN "Suspense"
        ELSE LET first == CHOOSE k \in eligible : \A j \in eligible : k <= j
             IN  IF rules[first].account # "" THEN rules[first].account
                 ELSE "Suspense"

\* The text of a matched voucher that the rules are applied to
VoucherText(voucher) ==
    IF voucher.raw_text # <<>> THEN voucher.raw_text ELSE voucher.vendor_name

\* C11: every emitted entry has its postings in the order and direction of the
\* state table.  From a 'matched' result: debit |amount| to the rule's account
\* (suspense without a rule that names an account), then credit |amount| to the
\* bank.  From an 'unmatched' debit: debit |amount| to suspense, then credit
\* |amount| to the bank.  From a credit: debit amount to the bank, then credit
\* amount to the rule's account or suspense.
C11_PostingsOrderAndDirection ==
    [][(pc = "gen_loop" /\ idx <= Len(matched_results) /\ Emits) =>
          LET amount == CurrentStatement.amount
              abs_amount == IF amount < 0 THEN -amount ELSE amount
              bank == default_bank_account_name
          IN  IF CurrentItem.status = "matched"
              THEN Emitted.postings =
                     << [account |-> AccountFor(VoucherText(vouchers[CurrentItem.voucher]),
                                                rules_config),
                         debit |-> abs_amount, credit |-> 0],
                        [account |-> bank, debit |-> 0, credit |-> abs_amount] >>
              ELSE IF CurrentItem.status = "unmatched"
              THEN /\ amount < 0
                   /\ Emitted.postings =
                        << [account |-> "Suspense", debit |-> abs_amount, credit |-> 0],
                           [account |-> bank, debit |-> 0, credit |-> abs_amount] >>
              ELSE /\ amount > 0
                   /\ Emitted.postings =
                        << [account |-> bank, debit |-> amount, credit |-> 0],
                           [account |-> AccountFor(CurrentStatement.description,
                                                   rules_config),
                            debit |-> 0, credit |-> amount] >>
      ]_vars

\* C11 witness: a finished batch with an entry from a matched debit that a rule
\* sends to its account, and an entry from a credit that a rule sends to its
\* account
C11_Witness ==
    /\ pc = "gen_done"
    /\ \E a, b \in 1..Len(journal_entries) :
          /\ journal_entries[a].status = "auto_generated_rule"
          /\ journal_entries[a].postings[1].account = "Meals"
          /\ journal_entries[a].postings[1].debit = 5
          /\ journal_entries[a].postings[2].account = default_bank_account_name
          /\ journal_entries[b].status = "auto_generated_rule_income"
          /\ journal_entries[b].postings[1].account = default_bank_account_name
          /\ journal_entries[b].postings[2].account = "Meals"
          /\ journal_entries[b].postings[2].credit = 5

\* C12: every emitted entry has exactly two postings, and in each of them
\* exactly one of debit and credit is not zero.
C12_TwoPostingsOneSideEach ==
    \A e \in 1..Len(journal_entries) :
        /\ Len(journal_entries[e].postings) = 2
        /\ \A p \in 1..2 :
              (journal_entries[e].postings[p].debit # 0)
                  # (journal_entries[e].postings[p].credit # 0)

\* C13: a match result whose statement amount is exactly 0 gives no entry,
\* whatever its status.
C13_NoEntryForZeroAmount ==
    [][(pc = "gen_loop" /\ idx <= Len(matched_results)
          /\ CurrentItem.statement # 0 /\ CurrentStatement.amount = 0) =>
          journal_entries' = journal_entries
      ]_vars

\* s[a..b] are decimal digits
AllDigits(s, a, b) ==
    \A k \in a..b : s[k] \in {"0","1","2","3","4","5","6","7","8","9"}

\* The number that the decimal digits s[a..b] write
RECURSIVE NumberAt(_, _, _)
NumberAt(s, a, b) ==
    IF b < a THEN 0
    ELSE 10 * NumberAt(s, a, b - 1)
         + (CHOOSE n \in 0..9 : <<"0","1","2","3","4","5","6","7","8","9">>[n + 1] = s[b])

\* There is a day d in month m of year y
IsCalendarDate(y, m, d) ==
    /\ y >= 1 /\ m \in 1..12 /\ d >= 1
    /\ d <= (IF m = 2
             THEN (IF (y % 4 = 0 /\ y % 100 # 0) \/ y % 400 = 0 THEN 29 ELSE 28)
             ELSE IF m \in {4, 6, 9, 11} THEN 30 ELSE 31)

\* s is a date written YYYY-MM-DD
IsExtendedIsoDate(s) ==
    /\ Len(s) = 10 /\ s[5] = "-" /\ s[8] = "-"
    /\ AllDigits(s, 1, 4) /\ AllDigits(s, 6, 7) /\ AllDigits(s, 9, 10)
    /\ IsCalendarDate(NumberAt(s, 1, 4), NumberAt(s, 6, 7), NumberAt(s, 9, 10))

\* s is a date written YYYYMMDD
IsBasicIsoDate(s) ==
    /\ Len(s) = 8 /\ AllDigits(s, 1, 8)
    /\ IsCalendarDate(NumberAt(s, 1, 4), NumberAt(s, 5, 6), NumberAt(s, 7, 8))

\* The iteration handles a match result that has a statement
HandlesStatement ==
    pc = "gen_loop" /\ idx <= Len(matched_results) /\ CurrentItem.statement # 0

\* The iteration gives no entry and the loop goes on with the next result
SkipsItem ==
    journal_entries' = journal_entries /\ idx' = idx + 1 /\ pc' = "gen_loop"

\* C14 as stated: a result whose statement date is missing, or is neither a
\* date value nor a valid YYYY-MM-DD string, gives no entry and the rest of the
\* batch is still handled; an entry from a valid YYYY-MM-DD string carries that
\* same string as its date.
C14_OnlyExtendedIsoDatesAccepted ==
    [][HandlesStatement =>
          LET dt == CurrentStatement.date
          IN  /\ (dt.kind = "none" \/ (dt.kind = "str" /\ ~IsExtendedIsoDate(dt.str)))
                    => SkipsItem
              /\ (dt.kind = "str" /\ IsExtendedIsoDate(dt.str) /\ Emits)
                    => Emitted.date = dt.str
      ]_vars

\* C14 amended: a result whose statement date is missing, or is neither a date
\* value nor a string that date.fromisoformat accepts (here YYYY-MM-DD or YYYYMMDD),
\* gives no entry and the rest of the batch is still handled; an entry from a
\* valid YYYY-MM-DD string carries that same string as its date.
C14_UnparsableDateSkipped ==
    [][HandlesStatement =>
          LET dt == CurrentStatement.date
          IN  /\ (dt.kind = "none" \/ (dt.kind = "str" /\ ~IsExtendedIsoDate(dt.str)
                                         /\ ~IsBasicIsoDate(dt.str)))
                    => SkipsItem
              /\ (dt.kind = "str" /\ IsExtendedIsoDate(dt.str) /\ Emits)
                    => Emitted.date = dt.str
      ]_vars

\* C14 witness: a finished batch of two results; the first has a date string
\* that is not a date and gave no entry, the second has a YYYY-MM-DD string and
\* gave the only entry, dated with that string
C14_Witness ==
    /\ pc = "gen_done"
    /\ Len(matched_results) = 2
    /\ matched_results[1].statement # 0 /\ matched_results[2].statement # 0
    /\ LET d1 == statement_transactions[matched_results[1].statement].date
           d2 == statement_transactions[matched_results[2].statement].date
       IN  /\ d1.kind = "str" /\ ~IsExtendedIsoDate(d1.str) /\ ~IsBasicIsoDate(d1.str)
           /\ d2.kind = "str" /\ IsExtendedIsoDate(d2.str)
           /\ Len(journal_entries) = 1
           /\ journal_entries[1].date = d2.str

\* A bank account name that accounts.yml has
ConfiguredBank == "Checking Account"

\* What the iteration gives when the bank account name is the configured one
WithConfiguredBank ==
    GenerateEntry(Deref(statement_transactions, CurrentItem.statement),
                  Deref(vouchers, CurrentItem.voucher), CurrentItem.status,
                  rules_config, ConfiguredBank)

C16_DescriptionPrependsNewVendor ==
    [][(pc = "gen_loop" /\ idx <= Len(matched_results) /\ Emits) =>
          LET description == CurrentStatement.description
              vendor == IF CurrentItem.voucher = 0 THEN <<>>
                        ELSE vouchers[CurrentItem.voucher].vendor_name
          IN  Emitted.description =
                IF vendor # <<>> /\ ~IsSubstring(Lower(vendor), Lower(description))
                THEN vendor \o <<" ", "-", " ">> \o description
                ELSE description
      ]_vars

\* C17: every emitted entry has an id: the id of its statement where the
\* statement has one, else a generated id, written here as the pair of the
\* prefix 'je_gen_' and a suffix, that no other entry of the batch has.
C17_EveryEntryHasId ==
    \A a \in 1..Len(journal_entries) :
        LET entry == journal_entries[a]
        IN  /\ "id" \in DOMAIN entry
            /\ IF entry.source_statement_id # <<>>
               THEN entry.id = entry.source_statement_id[1]
               ELSE /\ \E n \in 0..Len(matched_results) : entry.id = <<"je_gen_", n>>
                    /\ \A b \in 1..Len(journal_entries) :
                          b # a => journal_entries[b].id # entry.id

----------------------------------------------------------------------------
(* Properties of repeated and interleaved matching runs *)

\* C18: a call resets every voucher's flag before it handles its first
\* statement, and a second call with the same statements on the voucher list
\* that the first call left returns the assignment and the statuses of the
\* first call.
C18_RepeatedRunSameResult ==
    /\ (run_b.pc = "loop" /\ run_b.idx = 1) =>
          \A k \in 1..Len(vouchers) : ~vouchers[k].matched
    /\ (pc = "done" /\ run_b.pc = "done") => run_b.matches = matches

\* C18 witness: both calls have returned; the second call found the flag of a
\* voucher set, as the first call left it, and matched that voucher again
C18_Witness ==
    /\ pc = "done" /\ run_b.pc = "done"
    /\ \E a \in 1..Len(run_b.matches) :
          /\ run_b.matches[a].status = "matched"
          /\ run_b.matches[a].voucher \in run_b.cleared
          /\ matches[a].voucher = run_b.matches[a].voucher

\* A voucher is matched with two statements in this list of results
MatchedTwice(results, k) ==
    \E a, b \in 1..Len(results) :
        a # b /\ results[a].voucher = k /\ results[b].voucher = k

\* C19: two runs that interleave on independent copies of the voucher list
\* never match a voucher with more than one statement; on a shared list they
\* can (the witness).
C19_IsolatedRunsMatchOnce ==
    ~run_b.shared =>
        \A k \in 1..Len(vouchers) :
            ~MatchedTwice(matches, k) /\ ~MatchedTwice(run_b.matches, k)

\* C19 witness: on a shared list, the reset of run B turned off the flag of a
\* voucher that run A had matched, and run A matched that voucher again with a
\* later statement
C19_Witness ==
    /\ run_b.shared
    /\ \E k \in run_b.cleared :
          \E a, b \in 1..Len(matches) :
              /\ a < b
              /\ matches[a].voucher = k /\ matches[a].status = "matched"
              /\ matches[b].voucher = k /\ matches[b].status = "matched"

----------------------------------------------------------------------------
(* Properties of the rule engine: the cases without a result *)

\* C20: a call returns None when the description is empty or absent or when
\* there are no rules, never returns a rule whose keyword list is empty or
\* missing, and leaves the description and the rules as they are.
C20_NoneForEmptyInputsNoSideEffects ==
    [][(pc = "rules") =>
          /\ (text_in = <<>> \/ rules_config = <<>>) => rule_out' = 0
          /\ rule_out' # 0 => rules_config[rule_out'].keywords # <<>>
          /\ text_in' = text_in
          /\ rules_config' = rules_config
      ]_vars

\* C20 witness: a call with an empty description returned None although the
\* rules hold a rule whose keyword, the empty string, is part of every text;
\* the rule before it has no keywords
C20_Witness ==
    /\ pc = "ruled"
    /\ text_in = <<>>
    /\ rule_out = 0
    /\ Len(rules_config) = 2
    /\ rules_config[1].keywords = <<>>
    /\ \E j \in 1..Len(rules_config[2].keywords) : rules_config[2].keywords[j] = <<>>

----------------------------------------------------------------------------
(* Properties of the trial balance *)

\* The postings of all the entries, in order
RECURSIVE AllPostings(_)
AllPostings(entries) ==
    IF entries = <<>> THEN <<>>
    ELSE entries[1].postings \o AllPostings(Tail(entries))

\* The sum of the debits, or of the credits, of the postings naming the account
RECURSIVE SumFor(_, _, _)
SumFor(postings, account, side) ==
    IF postings = <<>> THEN 0
    ELSE (IF postings[1].account = account
          THEN (IF side = "debit" THEN postings[1].debit ELSE postings[1].credit)
          ELSE 0)
         + SumFor(Tail(postings), account, side)

\* The account names that occur in a posting
NamedAccounts(entries) ==
    {AllPostings(entries)[p].account : p \in 1..Len(AllPostings(entries))} \ {""}

\* C21: the totals returned have exactly the account names that occur in a
\* posting, each with the sums of the debits and of the credits of all the
\* postings that name it, unbalanced entries included; postings without an
\* account name count for nothing; the GRAND TOTAL row written holds the sums
\* of the totals per account, which is 0 and 0 with {} returned where there
\* are no entries or no posting with an account name.
C21_TotalsPerAccountAndGrandTotal ==
    (pc = "tb_done") =>
        LET postings == AllPostings(journal_entries)
            accounts == NamedAccounts(journal_entries)
            totals == trial_balance.returned[1].totals
        IN  /\ DOMAIN totals = accounts
            /\ \A a \in accounts :
                  /\ totals[a].debit = SumFor(postings, a, "debit")
                  /\ totals[a].credit = SumFor(postings, a, "credit")
            /\ trial_balance.csv # <<>> =>
                  LET with_name == SelectSeq(postings, LAMBDA p : p.account # "")
                      sum(side) ==
                          SumFor([p \in 1..Len(with_name) |->
                                     [with_name[p] EXCEPT !.account = "any"]],
                                 "any", side)
                  IN  /\ trial_balance.csv[1].rows = totals
                      /\ trial_balance.csv[1].grand_total.debit = sum("debit")
                      /\ trial_balance.csv[1].grand_total.credit = sum("credit")
            /\ accounts = {} =>
                  /\ totals = <<>>
                  /\ trial_balance.csv # <<>> =>
                        trial_balance.csv[1].grand_total = [debit |-> 0, credit |-> 0]

\* C21 witness: a finished call on two entries, one of them unbalanced and one
\* with a posting without account name; the file is written, the account Cash
\* has totals from both entries and the grand totals differ
C21_Witness ==
    /\ pc = "tb_done"
    /\ trial_balance.csv # <<>>
    /\ Len(journal_entries) = 2
    /\ \E e \in 1..2 : \E p \in 1..Len(journal_entries[e].postings) :
          journal_entries[e].postings[p].account = ""
    /\ "Cash" \in DOMAIN trial_balance.returned[1].totals
    /\ trial_balance.returned[1].totals["Cash"] = [debit |-> 5, credit |-> 2]
    /\ trial_balance.csv[1].grand_total = [debit |-> 7, credit |-> 5]

----------------------------------------------------------------------------
(* Further properties of the matcher *)

\* The vendor name is not part of the description, and none of its tokens is,
\* without regard to case
NoTextOverlap(vendor_name, description) ==
    LET vendor == Lower(vendor_name)
        desc == Lower(description)
        tokens == Split(vendor)
    IN  /\ vendor = <<>> \/ ~IsSubstring(vendor, desc)
        /\ \A t \in 1..Len(tokens) : ~IsSubstring(tokens[t], desc)

\* Voucher k has no flag, passes the amount and date filters at a date
\* difference equal to the tolerance, and has no text in common with tx
ZeroScoreCandidate(tx, vs, tolerance, k) ==
    /\ ~vs[k].matched
    /\ PassesAmountAndDate(tx, vs[k], tolerance)
    /\ Abs(Ordinal(StatementDate(tx)[1]) - Ordinal(vs[k].transaction_date.val))
          = tolerance
    /\ NoTextOverlap(vs[k].vendor_name, tx.description)

\* C22: find_matching_voucher does not return a voucher that passes the amount
\* and date filters with a date difference equal to the tolerance and has no
\* text in common with the description; where the vouchers that pass the
\* filters are all of this kind, it returns None.
C22_ZeroScoreCandidateDiscarded ==
    (pc = "found") =>
        LET tx == statement_transactions[1]
            passing == {k \in 1..Len(vouchers) :
                           ~vouchers[k].matched
                           /\ PassesAmountAndDate(tx, vouchers[k], date_tolerance_days)}
            zero == {k \in 1..Len(vouchers) :
                        ZeroScoreCandidate(tx, vouchers, date_tolerance_days, k)}
        IN  /\ found \notin zero
            /\ passing \subseteq zero => found = 0

\* C22 witness: with a tolerance of 0, a voucher of the same day and the same
\* amount without text in common with the description was not returned
C22_Witness ==
    /\ pc = "found"
    /\ date_tolerance_days = 0
    /\ found = 0
    /\ \E k \in 1..Len(vouchers) :
          ZeroScoreCandidate(statement_transactions[1], vouchers, 0, k)

----------------------------------------------------------------------------
(* Further properties of the journal entry builder *)

\* The match result is outside the five rows of the state table
OutsideStateTable(item, amount) ==
    \/ item.status = "matched" /\ item.voucher = 0
    \/ item.status = "unmatched" /\ amount >= 0
    \/ item.status = "ignored_credit_or_zero" /\ amount <= 0
    \/ item.status \notin {"matched", "unmatched", "ignored_credit_or_zero"}

\* C23: a match result outside the five rows of the state table ('matched'
\* without voucher, 'unmatched' with amount >= 0, 'ignored_credit_or_zero' with
\* amount <= 0, any other status) gives no entry, and the loop goes on.
C23_NoEntryOutsideStateTable ==
    [][(HandlesStatement /\ OutsideStateTable(CurrentItem, CurrentStatement.amount))
          => SkipsItem
      ]_vars

\* C23 witness: a finished batch of a 'matched' result without voucher and a
\* result with an unknown status, both with a date that parses, and no entry
C23_Witness ==
    /\ pc = "gen_done"
    /\ journal_entries = <<>>
    /\ Len(matched_results) = 2
    /\ matched_results[1].status = "matched" /\ matched_results[1].voucher = 0
    /\ matched_results[2].status = "other"
    /\ \A a \in 1..2 :
          /\ matched_results[a].statement # 0
          /\ statement_transactions[matched_results[a].statement].date.kind = "date"

\* The voucher list after a step holds the same vouchers but for their flags
SameButFlags(before, after) ==
    /\ Len(after) = Len(before)
    /\ \A k \in 1..Len(before) :
          [after[k] EXCEPT !.matched = before[k].matched] = before[k]

TakenBefore(a) ==
    {matches[c].voucher : c \in {d \in 1..(a - 1) : matches[d].status = "matched"}}

\* The vouchers statement a is eligible for that no earlier statement took
FreeFor(a) == EligibleVouchers(a) \ TakenBefore(a)

\* C25: the assignment is greedy in statement order: each debit takes, of the
\* eligible vouchers that no earlier statement took, the one it prefers, and is
\* 'unmatched' only when there is none; what later statements are eligible for
\* plays no part.  It is therefore not globally optimal (see the witness).
C25_GreedyInStatementOrder ==
    \A a \in 1..Len(matches) :
        statement_transactions[a].amount < 0 =>
            IF FreeFor(a) = {} THEN matches[a].status = "unmatched"
            ELSE /\ matches[a].status = "matched"
                 /\ matches[a].voucher \in FreeFor(a)
                 /\ \A j \in FreeFor(a) :
                        Preferred(statement_transactions[a], vouchers,
                                  date_tolerance_days, matches[a].voucher, j)

\* C25 witness: the run is over; an earlier statement eligible for two vouchers
\* took the only voucher a later statement is eligible for, its other voucher
\* is still unused and the later statement is 'unmatched': giving the earlier
\* one its other voucher would have matched both.
C25_Witness ==
    /\ pc = "done"
    /\ \E a, b \in 1..Len(matches) : \E k, k2 \in 1..Len(vouchers) :
          /\ a < b /\ k # k2
          /\ MatchedTo(a, k)
          /\ k2 \in EligibleVouchers(a)
          /\ ~vouchers[k2].matched
          /\ EligibleVouchers(b) = {k}
          /\ matches[b].status = "unmatched"

\* C26: the run handles the statements once each, in input order: after n
\* iterations there are n results, result a carrying statement a; the list
\* returned has one result per statement, and is empty for no statements
\* whatever the vouchers are.
C26_OneResultPerStatementInOrder ==
    /\ Len(matches) = (IF pc = "reset" THEN 0 ELSE idx - 1)
    /\ \A a \in 1..Len(matches) :
          /\ matches[a].statement = a
          /\ StatementOf(a) = statement_transactions[a]
    /\ pc = "done" =>
          /\ Len(matches) = Len(statement_transactions)
          /\ (statement_transactions = <<>> => matches = <<>>)

\* C26 witness: a finished run over several statements, a credit among them,
\* with vouchers at hand
C26_Witness ==
    /\ pc = "done"
    /\ vouchers # <<>>
    /\ Len(matches) >= 2
    /\ \E a, b \in 1..Len(matches) :
          /\ matches[a].status = "ignored_credit_or_zero"
          /\ matches[b].status = "matched"
          /\ a < b

MatchedResults == {a \in 1..Len(matches) : matches[a].status = "matched"}

\* C28: when the run is over, the flag of a voucher is set exactly when the
\* voucher is that of some result with status 'matched'; the vouchers chosen
\* for no statement have it off, whatever it was before the run, and there are
\* no more 'matched' results than vouchers.
C28_FlagSetIffVoucherOfMatchedResult ==
    pc = "done" =>
        /\ \A k \in 1..Len(vouchers) :
              vouchers[k].matched <=> (\E a \in MatchedResults : matches[a].voucher = k)
        /\ Cardinality(MatchedResults) <= Len(vouchers)

\* C28 witness: a finished run with two vouchers, one the voucher of a
\* 'matched' result and flagged, the other chosen for no statement, not flagged
C28_Witness ==
    /\ pc = "done"
    /\ Len(vouchers) = 2
    /\ \E k, j \in 1..2 :
          /\ vouchers[k].matched
          /\ \E a \in MatchedResults : matches[a].voucher = k
          /\ ~vouchers[j].matched
          /\ \A a \in MatchedResults : matches[a].voucher # j

----------------------------------------------------------------------------
(* Properties of the pipeline of main.py *)

\* The statements that give a journal entry in the pipeline: those with a date
\* that parses and an amount other than zero, in input order
RECURSIVE EntryStatements(_)
EntryStatements(n) ==
    IF n = 0 THEN <<>>
    ELSE LET tx == statement_transactions[n]
         IN  IF EntryDate(tx) # None /\ tx.amount # 0
             THEN Append(EntryStatements(n - 1), n)
             ELSE EntryStatements(n - 1)

\* C29: in the pipeline, match results are 'matched' only for an amount < 0
\* and 'ignored_credit_or_zero' exactly for an amount >= 0, so that of the
\* combinations without entry only the zero amount can arise; the journal
\* entries generated are, in order, one for each statement with a date that
\* parses and an amount other than zero, and none for a zero amount.
C29_PipelineOneEntryPerNonZeroStatement ==
    /\ \A a \in 1..Len(matches) :
          /\ matches[a].status = "matched" => StatementOf(a).amount < 0
          /\ matches[a].status = "ignored_credit_or_zero" <=> StatementOf(a).amount >= 0
          /\ OutsideStateTable(matches[a], StatementOf(a).amount)
                 => StatementOf(a).amount = 0
    /\ pc \in {"gen_done", "tb_start", "tb_loop", "tb_done"} =>
          LET expected == EntryStatements(Len(statement_transactions))
          IN  /\ Len(journal_entries) = Len(expected)
              /\ \A e \in 1..Len(expected) :
                    LET tx == statement_transactions[expected[e]]
                    IN  /\ journal_entries[e].source_statement_id = tx.id
                        /\ journal_entries[e].date = IsoFormat(EntryDate(tx)[1])
                        /\ journal_entries[e].postings # <<>>

\* C29 witness: the journal entries of a run over a zero amount and a debit
\* left without voucher: one entry, for the debit
C29_Witness ==
    /\ pc = "gen_done"
    /\ Len(statement_transactions) = 2
    /\ statement_transactions[1].amount = 0
    /\ EntryDate(statement_transactions[1]) # None
    /\ matches[2].status = "unmatched"
    /\ Len(journal_entries) = 1
    /\ journal_entries[1].source_statement_id = statement_transactions[2].id

----------------------------------------------------------------------------
(* Properties of the journal entries as the trial balance reads them *)

\* The sum of the debits, or of the credits, of some postings
RECURSIVE SumOf(_, _)
SumOf(postings, side) ==
    IF postings = <<>> THEN 0
    ELSE (IF side = "debit" THEN postings[1].debit ELSE postings[1].credit)
         + SumOf(Tail(postings), side)

\* The entry that the iteration appends has debits and credits that both sum
\* up to the absolute value of the statement amount
EmitsBalancedEntry ==
    (pc = "gen_loop" /\ idx <= Len(matched_results) /\ Emits) =>
        /\ SumOf(Emitted.postings, "debit") = Abs(CurrentStatement.amount)
        /\ SumOf(Emitted.postings, "credit") = Abs(CurrentStatement.amount)

\* The trial balance file written by the step has equal grand totals
WritesEqualGrandTotals ==
    (pc' = "tb_done" /\ trial_balance'.csv # None) =>
        trial_balance'.csv[1].grand_total.debit
            = trial_balance'.csv[1].grand_total.credit

\* The account names that generate_journal_entries falls back on
FallbackNamesGiven ==
    /\ BankAccountName(accounts_config, default_bank_account_name) # ""
    /\ default_suspense_account_name # ""

\* C30 as stated: every entry emitted has debits and credits that both sum up
\* to the absolute value of the statement amount, whatever the amount of the
\* voucher, so that the trial balance written from the entries of a call has
\* equal grand totals.
C30_BalancedEntriesGiveBalancedTrialBalance ==
    [][EmitsBalancedEntry /\ WritesEqualGrandTotals]_vars

\* C30 as amended: every entry emitted has debits and credits that both sum up
\* to the absolute value of the statement amount, whatever the amount of the
\* voucher; the trial balance written from the entries of a call has equal
\* grand totals provided the bank and suspense account names are not empty.
C30_BalancedTrialBalanceForNamedAccounts ==
    [][EmitsBalancedEntry /\ (FallbackNamesGiven => WritesEqualGrandTotals)]_vars

\* C30 witness: the trial balance of two entries is written, one entry from a
\* 'matched' result whose voucher amount is not that of the statement; the bank
\* account has a name and the grand totals are equal and not zero
C30_Witness ==
    /\ pc = "tb_done"
    /\ trial_balance.csv # None
    /\ FallbackNamesGiven
    /\ Len(journal_entries) = 2
    /\ \E a \in 1..Len(matched_results) :
          /\ matched_results[a].status = "matched"
          /\ matched_results[a].voucher # 0
          /\ vouchers[matched_results[a].voucher].total_amount
                 # Some(Abs(statement_transactions[matched_results[a].statement].amount))
    /\ trial_balance.csv[1].grand_total.debit = trial_balance.csv[1].grand_total.credit
    /\ trial_balance.csv[1].grand_total.debit > 0

====
